---- MODULE Spec2Model ----
(***************************************************************************)
(* Model of the retrieval core of the HR FAQ chatbot:                      *)
(*   backend/rag_engine.py  (RAGEngine, get_rag_engine)                    *)
(*   backend/server.py      (is_hr_related, /ask, /ask/stream)             *)
(* Strings are sequences of one-character strings, so that len(), slicing, *)
(* concatenation, lower() and substring tests are computed, not assumed.   *)
(***************************************************************************)
EXTENDS Integers, Sequences, FiniteSets, TLC

VARIABLES
    results,             \* get_context_for_question: the list search() returned
    max_context_length,  \* get_context_for_question: the character budget argument
    ret,                 \* the outcome of the most recently completed call
    question,            \* is_hr_related: the question argument
    chromadb,            \* rag_engine.chromadb is not None
    SentenceTransformer, \* rag_engine.SentenceTransformer is not None
    engines,             \* the RAGEngine objects constructed so far, by identity
    rag_engine_global,   \* rag_engine._rag_engine (0 is None)
    server_rag_engine,   \* server.rag_engine (0 is None)
    hr_module,           \* server.hr_module is not None
    store,               \* the collection "hr_documents" in the persist directory
    uid_counter,         \* collections created so far in the persist directory
    last_init,           \* per engine, the value its latest initialize returned
    directory,           \* parse_directory: the document root and its *.md files
    threads              \* per engine, the initialize call a thread is executing on it

engineVars == <<chromadb, SentenceTransformer, engines, rag_engine_global,
                server_rag_engine, hr_module, store, uid_counter, last_init>>

vars == <<results, max_context_length, ret, question, engineVars, directory,
          threads>>

(***************************************************************************)
(* Bounds of the model                                                     *)
(***************************************************************************)
MaxResults == 2      \* longest result list handed to the context assembler
MaxQLen == 5         \* longest question handed to the domain gate
MaxEngines == 2      \* RAGEngine objects constructed in one run
MaxUid == 2          \* collections created in the persist directory
MaxDirectEngines == 1 \* RAGEngine objects a library caller constructs itself
MaxLines == 3        \* lines of a document handed to the chunker
MaxFiles == 2        \* files of a document root with several files

(***************************************************************************)
(* String helpers (Python str semantics)                                   *)
(***************************************************************************)
Min(a, b) == IF a < b THEN a ELSE b

\* s[:n] for n >= 0 (slicing clamps to the length of s)
Take(s, n) == SubSeq(s, 1, Min(n, Len(s)))

RECURSIVE Join(_, _)
\* sep.join(parts)
Join(parts, sep) ==
    IF Len(parts) = 0 THEN <<>>
    ELSE IF Len(parts) = 1 THEN parts[1]
    ELSE parts[1] \o sep \o Join(Tail(parts), sep)

Ellipsis == <<".", ".", ".">>
Separator == <<"\n", "\n", "-", "-", "-", "\n", "\n">>

\* f"[{result['section']}]\n{content}"
FormatPart(section, content) == <<"[">> \o section \o <<"]", "\n">> \o content

(***************************************************************************)
(* RAGEngine.get_context_for_question: the assembly loop                   *)
(***************************************************************************)
MinUsefulRemaining == 200
SnippetLength == 200

\* "snippet": content[:200] + "..." if len(content) > 200 else content
Snippet(content) ==
    IF Len(content) > SnippetLength
    THEN Take(content, SnippetLength) \o Ellipsis
    ELSE content

\* the appends with "current_length += len(content)" left out
AppendResult_NoCount(acc, result, content) ==
    [context_parts  |-> Append(acc.context_parts, FormatPart(result.section, content)),
     current_length |-> acc.current_length,
     broke          |-> acc.broke,
     sources        |-> Append(acc.sources,
                               [title      |-> result.section,
                                snippet    |-> Snippet(content),
                                category   |-> result.category,
                                similarity |-> result.similarity])]

\* the appends with sources.append left out
AppendResult_NoSource(acc, result, content) ==
    [context_parts  |-> Append(acc.context_parts, FormatPart(result.section, content)),
     current_length |-> acc.current_length + Len(content),
     broke          |-> acc.broke,
     sources        |-> acc.sources]

\* one pass of the loop body that reaches the two appends
AppendResult(acc, result, content) ==
    [context_parts  |-> Append(acc.context_parts, FormatPart(result.section, content)),
     current_length |-> acc.current_length + Len(content),
     broke          |-> acc.broke,
     sources        |-> Append(acc.sources,
                               [title      |-> result.section,
                                snippet    |-> Snippet(content),
                                category   |-> result.category,
                                similarity |-> result.similarity])]

\* LoopBody with the usefulness threshold left out: any positive allowance is used
LoopBody_NoThreshold(acc, result, maxlen) ==
    LET content == result.content
    IN  IF acc.current_length + Len(content) > maxlen
        THEN LET remaining == maxlen - acc.current_length
             IN  IF remaining > 0
                 THEN AppendResult(acc, result, Take(content, remaining) \o Ellipsis)
                 ELSE [acc EXCEPT !.broke = TRUE]
        ELSE AppendResult(acc, result, content)

\* LoopBody with continue in place of break: an oversized result is skipped
LoopBody_Continue(acc, result, maxlen) ==
    LET content == result.content
    IN  IF acc.current_length + Len(content) > maxlen
        THEN LET remaining == maxlen - acc.current_length
             IN  IF remaining > MinUsefulRemaining
                 THEN AppendResult(acc, result, Take(content, remaining) \o Ellipsis)
                 ELSE acc
        ELSE AppendResult(acc, result, content)

\* the body of "for result in results"; broke records that break was executed
LoopBody(acc, result, maxlen) ==
    LET content == result.content
    IN  IF acc.current_length + Len(content) > maxlen
        THEN LET remaining == maxlen - acc.current_length
             IN  IF remaining > MinUsefulRemaining
                 THEN AppendResult(acc, result, Take(content, remaining) \o Ellipsis)
                 ELSE [acc EXCEPT !.broke = TRUE]
        ELSE AppendResult(acc, result, content)

RECURSIVE AssembleLoop(_, _, _, _)
\* for result in results: ...
AssembleLoop(res, i, maxlen, acc) ==
    IF i > Len(res) \/ acc.broke THEN acc
    ELSE AssembleLoop(res, i + 1, maxlen, LoopBody(acc, res[i], maxlen))

\* the assembly with a placeholder context in place of the empty return
BuildContext_Placeholder(res, maxlen) ==
    IF Len(res) = 0
    THEN [context |-> <<"-">>, sources |-> <<>>]
    ELSE LET acc == AssembleLoop(res, 1, maxlen,
                        [context_parts |-> <<>>, current_length |-> 0,
                         sources |-> <<>>, broke |-> FALSE])
         IN  [context |-> Join(acc.context_parts, Separator), sources |-> acc.sources]

\* the part of get_context_for_question that follows the search call
BuildContext(res, maxlen) ==
    IF Len(res) = 0
    THEN [context |-> <<>>, sources |-> <<>>]
    ELSE LET acc == AssembleLoop(res, 1, maxlen,
                        [context_parts |-> <<>>, current_length |-> 0,
                         sources |-> <<>>, broke |-> FALSE])
         IN  [context |-> Join(acc.context_parts, Separator), sources |-> acc.sources]

(***************************************************************************)
(* server.is_hr_related: the keyword domain gate                           *)
(***************************************************************************)
hr_keywords ==
    <<<<"v", "a", "c", "a", "t", "i", "o", "n">>,
      <<"l", "e", "a", "v", "e">>,
      <<"p", "t", "o">>,
      <<"t", "i", "m", "e", " ", "o", "f", "f">>,
      <<"h", "o", "l", "i", "d", "a", "y">>,
      <<"s", "i", "c", "k">>,
      <<"a", "b", "s", "e", "n", "c", "e">>,
      <<"d", "a", "y", " ", "o", "f", "f">>,
      <<"d", "a", "y", "s", " ", "o", "f", "f">>,
      <<"s", "a", "l", "a", "r", "y">>,
      <<"p", "a", "y">>,
      <<"c", "o", "m", "p", "e", "n", "s", "a", "t", "i", "o", "n">>,
      <<"b", "o", "n", "u", "s">>,
      <<"r", "a", "i", "s", "e">>,
      <<"p", "a", "y", "r", "o", "l", "l">>,
      <<"p", "a", "y", "c", "h", "e", "c", "k">>,
      <<"b", "e", "n", "e", "f", "i", "t">>,
      <<"i", "n", "s", "u", "r", "a", "n", "c", "e">>,
      <<"h", "e", "a", "l", "t", "h">>,
      <<"d", "e", "n", "t", "a", "l">>,
      <<"v", "i", "s", "i", "o", "n">>,
      <<"4", "0", "1", "k">>,
      <<"r", "e", "t", "i", "r", "e", "m", "e", "n", "t">>,
      <<"r", "e", "m", "o", "t", "e">>,
      <<"w", "o", "r", "k", " ", "f", "r", "o", "m", " ", "h", "o", "m", "e">>,
      <<"w", "f", "h">>,
      <<"h", "y", "b", "r", "i", "d">>,
      <<"t", "e", "l", "e", "c", "o", "m", "m", "u", "t", "e">>,
      <<"t", "r", "a", "i", "n", "i", "n", "g">>,
      <<"o", "n", "b", "o", "a", "r", "d", "i", "n", "g">>,
      <<"o", "r", "i", "e", "n", "t", "a", "t", "i", "o", "n">>,
      <<"l", "e", "a", "r", "n", "i", "n", "g">>,
      <<"d", "e", "v", "e", "l", "o", "p", "m", "e", "n", "t">>,
      <<"c", "o", "u", "r", "s", "e">>,
      <<"p", "o", "l", "i", "c", "y">>,
      <<"h", "a", "n", "d", "b", "o", "o", "k">>,
      <<"g", "u", "i", "d", "e", "l", "i", "n", "e">>,
      <<"p", "r", "o", "c", "e", "d", "u", "r", "e">>,
      <<"h", "r">>,
      <<"h", "u", "m", "a", "n", " ", "r", "e", "s", "o", "u", "r", "c", "e", "s">>,
      <<"e", "m", "p", "l", "o", "y", "e", "e">>,
      <<"e", "m", "p", "l", "o", "y", "e", "r">>,
      <<"s", "t", "a", "f", "f">>,
      <<"w", "o", "r", "k", "f", "o", "r", "c", "e">>,
      <<"h", "i", "r", "e">>,
      <<"r", "e", "c", "r", "u", "i", "t">>,
      <<"i", "n", "t", "e", "r", "v", "i", "e", "w">>,
      <<"o", "f", "f", "e", "r">>,
      <<"p", "r", "o", "b", "a", "t", "i", "o", "n">>,
      <<"t", "e", "r", "m", "i", "n", "a", "t", "i", "o", "n">>,
      <<"p", "r", "o", "m", "o", "t", "i", "o", "n">>,
      <<"r", "e", "v", "i", "e", "w">>,
      <<"p", "e", "r", "f", "o", "r", "m", "a", "n", "c", "e">>,
      <<"e", "v", "a", "l", "u", "a", "t", "i", "o", "n">>,
      <<"f", "e", "e", "d", "b", "a", "c", "k">>,
      <<"h", "a", "r", "a", "s", "s", "m", "e", "n", "t">>,
      <<"d", "i", "s", "c", "r", "i", "m", "i", "n", "a", "t", "i", "o", "n">>,
      <<"c", "o", "m", "p", "l", "a", "i", "n", "t">>,
      <<"g", "r", "i", "e", "v", "a", "n", "c", "e">>,
      <<"e", "t", "h", "i", "c", "s">>,
      <<"e", "x", "p", "e", "n", "s", "e">>,
      <<"r", "e", "i", "m", "b", "u", "r", "s", "e", "m", "e", "n", "t">>,
      <<"p", "e", "r", " ", "d", "i", "e", "m">>,
      <<"m", "a", "t", "e", "r", "n", "i", "t", "y">>,
      <<"p", "a", "t", "e", "r", "n", "i", "t", "y">>,
      <<"p", "a", "r", "e", "n", "t", "a", "l">>,
      <<"f", "m", "l", "a">>,
      <<"d", "i", "s", "a", "b", "i", "l", "i", "t", "y">>,
      <<"d", "r", "e", "s", "s", " ", "c", "o", "d", "e">>,
      <<"a", "t", "t", "i", "r", "e">>,
      <<"u", "n", "i", "f", "o", "r", "m">>,
      <<"o", "v", "e", "r", "t", "i", "m", "e">>,
      <<"h", "o", "u", "r", "s">>,
      <<"s", "c", "h", "e", "d", "u", "l", "e">>,
      <<"s", "h", "i", "f", "t">>,
      <<"f", "l", "e", "x", "i", "b", "l", "e">>,
      <<"r", "e", "f", "e", "r", "r", "a", "l">>,
      <<"t", "r", "a", "n", "s", "f", "e", "r">>,
      <<"r", "e", "l", "o", "c", "a", "t", "i", "o", "n">> >>

non_hr_keywords ==
    <<<<"p", "y", "t", "h", "o", "n">>,
      <<"c", "o", "d", "e">>,
      <<"p", "r", "o", "g", "r", "a", "m", "m", "i", "n", "g">>,
      <<"j", "a", "v", "a", "s", "c", "r", "i", "p", "t">>,
      <<"j", "a", "v", "a">>,
      <<"s", "o", "f", "t", "w", "a", "r", "e">>,
      <<"b", "u", "g">>,
      <<"d", "e", "b", "u", "g">>,
      <<"w", "e", "a", "t", "h", "e", "r">>,
      <<"t", "e", "m", "p", "e", "r", "a", "t", "u", "r", "e">>,
      <<"r", "a", "i", "n">>,
      <<"s", "u", "n", "n", "y">>,
      <<"f", "o", "r", "e", "c", "a", "s", "t">>,
      <<"r", "e", "c", "i", "p", "e">>,
      <<"c", "o", "o", "k">>,
      <<"b", "a", "k", "e">>,
      <<"f", "o", "o", "d">>,
      <<"i", "n", "g", "r", "e", "d", "i", "e", "n", "t">>,
      <<"c", "a", "k", "e">>,
      <<"c", "a", "p", "i", "t", "a", "l">>,
      <<"c", "o", "u", "n", "t", "r", "y">>,
      <<"c", "i", "t", "y">>,
      <<"p", "r", "e", "s", "i", "d", "e", "n", "t">>,
      <<"t", "r", "u", "m", "p">>,
      <<"b", "i", "d", "e", "n">>,
      <<"o", "b", "a", "m", "a">>,
      <<"p", "o", "l", "i", "t", "i", "c", "i", "a", "n">>,
      <<"m", "o", "v", "i", "e">>,
      <<"f", "i", "l", "m">>,
      <<"a", "c", "t", "o", "r">>,
      <<"a", "c", "t", "r", "e", "s", "s">>,
      <<"s", "o", "n", "g">>,
      <<"m", "u", "s", "i", "c">>,
      <<"s", "i", "n", "g", "e", "r">>,
      <<"s", "p", "o", "r", "t", "s">>,
      <<"f", "o", "o", "t", "b", "a", "l", "l">>,
      <<"s", "o", "c", "c", "e", "r">>,
      <<"b", "a", "s", "k", "e", "t", "b", "a", "l", "l">>,
      <<"g", "a", "m", "e">>,
      <<"s", "c", "o", "r", "e">>,
      <<"m", "a", "t", "h">>,
      <<"c", "a", "l", "c", "u", "l", "a", "t", "e">>,
      <<"e", "q", "u", "a", "t", "i", "o", "n">>,
      <<"p", "h", "y", "s", "i", "c", "s">>,
      <<"c", "h", "e", "m", "i", "s", "t", "r", "y">>,
      <<"b", "i", "o", "l", "o", "g", "y">>,
      <<"s", "t", "o", "c", "k">>,
      <<"b", "i", "t", "c", "o", "i", "n">>,
      <<"c", "r", "y", "p", "t", "o">>,
      <<"i", "n", "v", "e", "s", "t">>,
      <<"t", "r", "a", "d", "i", "n", "g">>,
      <<"c", "a", "r">>,
      <<"v", "e", "h", "i", "c", "l", "e">>,
      <<"e", "n", "g", "i", "n", "e">>,
      <<"r", "e", "p", "a", "i", "r">>,
      <<"m", "e", "c", "h", "a", "n", "i", "c">>,
      <<"b", "o", "r", "n">>,
      <<"b", "i", "r", "t", "h", "d", "a", "y">>,
      <<"d", "i", "e", "d">>,
      <<"a", "g", "e">>,
      <<"m", "a", "r", "r", "i", "e", "d">>,
      <<"w", "i", "f", "e">>,
      <<"h", "u", "s", "b", "a", "n", "d">>,
      <<"t", "r", "a", "n", "s", "l", "a", "t", "e">>,
      <<"l", "a", "n", "g", "u", "a", "g", "e">>,
      <<"f", "r", "e", "n", "c", "h">>,
      <<"s", "p", "a", "n", "i", "s", "h">>,
      <<"g", "e", "r", "m", "a", "n">>,
      <<"c", "h", "i", "n", "e", "s", "e">>,
      <<"n", "e", "w", "s">>,
      <<"w", "a", "r">>,
      <<"e", "l", "e", "c", "t", "i", "o", "n">>,
      <<"v", "o", "t", "e">>,
      <<"p", "o", "l", "i", "t", "i", "c", "s">>,
      <<"q", "u", "a", "n", "t", "u", "m">>,
      <<"a", "l", "g", "o", "r", "i", "t", "h", "m">>,
      <<"m", "a", "c", "h", "i", "n", "e", " ", "l", "e", "a", "r", "n", "i", "n", "g">>,
      <<"a", "i", " ", "m", "o", "d", "e", "l">>,
      <<"h", "i", "s", "t", "o", "r", "y">>,
      <<"a", "n", "c", "i", "e", "n", "t">>,
      <<"k", "i", "n", "g">>,
      <<"q", "u", "e", "e", "n">>,
      <<"e", "m", "p", "i", "r", "e">>,
      <<"s", "p", "a", "c", "e">>,
      <<"p", "l", "a", "n", "e", "t">>,
      <<"s", "t", "a", "r">>,
      <<"g", "a", "l", "a", "x", "y">>,
      <<"n", "a", "s", "a">>,
      <<"a", "n", "i", "m", "a", "l">>,
      <<"d", "o", "g">>,
      <<"c", "a", "t">>,
      <<"p", "e", "t">>,
      <<"z", "o", "o">> >>

LowerOf ==
    ("A" :> "a") @@ ("B" :> "b") @@ ("C" :> "c") @@ ("D" :> "d") @@ ("E" :> "e") @@ ("F" :> "f") @@ ("G" :> "g") @@ ("H" :> "h") @@ ("I" :> "i") @@ ("J" :> "j") @@ ("K" :> "k") @@ ("L" :> "l") @@ ("M" :> "m") @@ ("N" :> "n") @@ ("O" :> "o") @@ ("P" :> "p") @@ ("Q" :> "q") @@ ("R" :> "r") @@ ("S" :> "s") @@ ("T" :> "t") @@ ("U" :> "u") @@ ("V" :> "v") @@ ("W" :> "w") @@ ("X" :> "x") @@ ("Y" :> "y") @@ ("Z" :> "z")

\* str.lower() on one character
Lower(c) == IF c \in DOMAIN LowerOf THEN LowerOf[c] ELSE c

\* question.lower()
LowerStr(s) == [i \in 1..Len(s) |-> Lower(s[i])]

\* kw in s
Contains(s, kw) ==
    \E i \in 0..(Len(s) - Len(kw)) : SubSeq(s, i + 1, i + Len(kw)) = kw

Whitespace == {" ", "\t", "\n"}

\* len(question.split()): the number of maximal runs of non-whitespace
TokenCount(s) ==
    Cardinality({i \in 1..Len(s) :
        s[i] \notin Whitespace /\ (i = 1 \/ s[i - 1] \in Whitespace)})

MinTokens == 3

\* is_hr_related with the off-domain list consulted before the in-domain list
is_hr_related_NonHrFirst(q) ==
    LET question_lower == LowerStr(q)
    IN  IF \E k \in DOMAIN non_hr_keywords :
                Contains(question_lower, non_hr_keywords[k])
        THEN FALSE
        ELSE IF \E k \in DOMAIN hr_keywords : Contains(question_lower, hr_keywords[k])
        THEN TRUE
        ELSE FALSE

\* is_hr_related with an admitting final default
is_hr_related_DefaultAdmit(q) ==
    LET question_lower == LowerStr(q)
    IN  IF \E k \in DOMAIN hr_keywords : Contains(question_lower, hr_keywords[k])
        THEN TRUE
        ELSE IF \E k \in DOMAIN non_hr_keywords :
                    Contains(question_lower, non_hr_keywords[k])
        THEN FALSE
        ELSE IF TokenCount(q) < MinTokens
        THEN FALSE
        ELSE TRUE

is_hr_related(q) ==
    LET question_lower == LowerStr(q)
    IN  IF \E k \in DOMAIN hr_keywords : Contains(question_lower, hr_keywords[k])
        THEN TRUE
        ELSE IF \E k \in DOMAIN non_hr_keywords :
                    Contains(question_lower, non_hr_keywords[k])
        THEN FALSE
        ELSE IF TokenCount(q) < MinTokens
        THEN FALSE
        ELSE FALSE

(***************************************************************************)
(* The vector index (a chromadb collection) as RAGEngine uses it           *)
(***************************************************************************)
\* the persist directory holds no collection of the configured name
\* the embedding model no vector was produced by
NoModel == "none"

\* embedded_by is the embedding model that produced the stored vectors; the
\* collection itself keeps no record of it
NoStore == [exists |-> FALSE, uid |-> 0, docs |-> <<>>, embedded_by |-> NoModel]

\* the (id, text, metadata) tuple stored for one DocumentChunk
EntryOf(chunk) ==
    [id       |-> chunk.chunk_id,
     document |-> chunk.content,
     section  |-> chunk.section,
     category |-> chunk.category]

\* collection.add rejects a batch in which an id occurs twice
DistinctIds(chunks) ==
    \A i, j \in DOMAIN chunks : chunks[i].chunk_id = chunks[j].chunk_id => i = j

\* where_filter = None
NoFilter == "None"

\* the entries that satisfy where={"category": ...}
Matching(docs, where) ==
    SelectSeq(docs, LAMBDA d : where = NoFilter \/ d.category = where)

Orderings(n) == {p \in [1..n -> 1..n] : \A i, j \in 1..n : p[i] = p[j] => i = j}

\* cosine distances in units of 1/10000; 1 - 0.1875 is halfway between two
\* multiples of 1/1000
DistanceValues == {1804, 1875, 12000}

AscendingDistances(n) ==
    {d \in [1..n -> DistanceValues] : \A i \in 1..(n - 1) : d[i] <= d[i + 1]}

\* collection.query: at most n_results matching entries, nearest first; which
\* entry is how near is decided by the embedding model
QueryAnswers(docs, n_results, where) ==
    LET m == Matching(docs, where)
        n == Min(n_results, Len(m))
    IN  { [i \in 1..n |-> [doc |-> m[p[i]], distance |-> d[i]]] :
            p \in Orderings(Len(m)), d \in AscendingDistances(n) }

(***************************************************************************)
(* RAGEngine.search                                                        *)
(***************************************************************************)
\* round(x, 3) for x in units of 1/10000, result in units of 1/1000: the
\* nearest multiple, and the even one when x is halfway between two
Round3(x) ==
    LET lower == x \div 10
        rest  == x % 10
    IN  IF rest < 5 THEN lower
        ELSE IF rest > 5 THEN lower + 1
        ELSE IF lower % 2 = 0 THEN lower ELSE lower + 1

\* similarity = 1 - distance with the digits beyond the third cut off
SimilarityOf_Truncate(distance) == (10000 - distance) \div 10

\* similarity = 1 - distance, rounded
SimilarityOf(distance) == Round3(10000 - distance)

\* formatted_results for one answer of the index
FormatResults(hits) ==
    [i \in 1..Len(hits) |->
        [content    |-> hits[i].doc.document,
         section    |-> hits[i].doc.section,
         category   |-> hits[i].doc.category,
         similarity |-> SimilarityOf(hits[i].distance)]]

\* the try block of search: exc tells whether it was left by an exception,
\* hits is what collection.query returned
SearchTry(eng, st, top_k, category_filter) ==
    {[exc |-> TRUE, value |-> <<>>, failure |-> "encode", hits |-> <<>>,
      embed_calls |-> 1, query_calls |-> 0]}
    \cup
    {[exc |-> TRUE, value |-> <<>>, failure |-> "query", hits |-> <<>>,
      embed_calls |-> 1, query_calls |-> 1]}
    \cup
    (IF st.exists /\ eng.collection = st.uid
     THEN {[exc |-> FALSE, value |-> FormatResults(h), failure |-> "none",
            hits |-> h, embed_calls |-> 1, query_calls |-> 1] :
                h \in QueryAnswers(st.docs, top_k, category_filter)}
     ELSE {})

\* search without its except clause: the exception leaves the method
SearchHandler_Reraise(t) ==
    [value |-> t.value, escaped |-> t.exc, failure |-> t.failure,
     hits |-> t.hits, embed_calls |-> t.embed_calls, query_calls |-> t.query_calls]

\* except Exception: return []
SearchHandler(t) ==
    [value |-> IF t.exc THEN <<>> ELSE t.value, escaped |-> FALSE,
     failure |-> t.failure, hits |-> t.hits,
     embed_calls |-> t.embed_calls, query_calls |-> t.query_calls]

\* search without the test of is_initialized
search_NoReadyTest(eng, st, top_k, category_filter) ==
    {SearchHandler(t) : t \in SearchTry(eng, st, top_k, category_filter)}

\* the possible outcomes of eng.search(query, top_k, category_filter)
search(eng, st, top_k, category_filter) ==
    IF ~eng.is_initialized
    THEN {[value |-> <<>>, escaped |-> FALSE, failure |-> "none",
           hits |-> <<>>, embed_calls |-> 0, query_calls |-> 0]}
    ELSE {SearchHandler(t) : t \in SearchTry(eng, st, top_k, category_filter)}

(***************************************************************************)
(* RAGEngine.get_context_for_question                                      *)
(***************************************************************************)
TopK == 5
DefaultMaxContextLength == 2000

\* the mode string itself used as the category filter
CategoryMap_Identity(mode) == mode

\* category_map.get(mode)
CategoryMap(mode) ==
    CASE mode = "policy" -> NoFilter
      [] mode = "benefits" -> "benefits"
      [] mode = "payroll" -> "payroll"
      [] OTHER -> NoFilter

\* the possible outcomes of eng.get_context_for_question(question, mode, maxlen)
get_context_for_question(eng, st, mode, maxlen) ==
    { LET built == IF s.escaped THEN [context |-> <<>>, sources |-> <<>>]
                   ELSE BuildContext(s.value, maxlen)
      IN  [context         |-> built.context,
           sources         |-> built.sources,
           escaped         |-> s.escaped,
           failure         |-> s.failure,
           found           |-> s.value,
           search_calls    |-> 1,
           top_k           |-> TopK,
           category_filter |-> CategoryMap(mode),
           embed_calls     |-> s.embed_calls,
           query_calls     |-> s.query_calls] :
        s \in search(eng, st, TopK, CategoryMap(mode)) }

(***************************************************************************)
(* server.py: response helpers                                             *)
(***************************************************************************)
module_hr_keywords ==
    <<<<"v", "a", "c", "a", "t", "i", "o", "n">>,
      <<"s", "i", "c", "k", " ", "l", "e", "a", "v", "e">>,
      <<"s", "a", "l", "a", "r", "y">>,
      <<"r", "e", "v", "i", "e", "w">>,
      <<"t", "r", "a", "i", "n", "i", "n", "g">>,
      <<"p", "o", "l", "i", "c", "y">>,
      <<"h", "o", "l", "i", "d", "a", "y">>,
      <<"t", "i", "m", "e", " ", "o", "f", "f">>,
      <<"b", "e", "n", "e", "f", "i", "t", "s">>,
      <<"i", "n", "s", "u", "r", "a", "n", "c", "e">>,
      <<"p", "e", "n", "s", "i", "o", "n">>,
      <<"r", "e", "t", "i", "r", "e", "m", "e", "n", "t">>,
      <<"m", "a", "t", "e", "r", "n", "i", "t", "y">>,
      <<"p", "a", "t", "e", "r", "n", "i", "t", "y">>,
      <<"l", "e", "a", "v", "e">>,
      <<"h", "a", "r", "a", "s", "s", "m", "e", "n", "t">>,
      <<"d", "i", "s", "c", "r", "i", "m", "i", "n", "a", "t", "i", "o", "n">>,
      <<"p", "r", "o", "m", "o", "t", "i", "o", "n">>,
      <<"r", "a", "i", "s", "e">>,
      <<"b", "o", "n", "u", "s">>,
      <<"c", "o", "n", "t", "r", "a", "c", "t">>,
      <<"p", "r", "o", "b", "a", "t", "i", "o", "n">>,
      <<"d", "r", "e", "s", "s", " ", "c", "o", "d", "e">>,
      <<"r", "e", "m", "o", "t", "e", " ", "w", "o", "r", "k">>,
      <<"t", "e", "l", "e", "w", "o", "r", "k">>,
      <<"f", "l", "e", "x", "i", "b", "l", "e">>,
      <<"h", "o", "u", "r", "s">>,
      <<"o", "v", "e", "r", "t", "i", "m", "e">>,
      <<"p", "a", "y", "r", "o", "l", "l">>,
      <<"h", "r">>,
      <<"h", "u", "m", "a", "n", " ", "r", "e", "s", "o", "u", "r", "c", "e", "s">>,
      <<"e", "m", "p", "l", "o", "y", "e", "e">>,
      <<"w", "o", "r", "k", "p", "l", "a", "c", "e">>,
      <<"s", "a", "f", "e", "t", "y">>,
      <<"i", "n", "j", "u", "r", "y">> >>

module_non_hr_keywords ==
    <<<<"i", "n", "s", "t", "a", "l", "l">>,
      <<"p", "y", "t", "h", "o", "n">>,
      <<"p", "r", "o", "g", "r", "a", "m", "m", "i", "n", "g">>,
      <<"c", "o", "d", "e">>,
      <<"s", "o", "f", "t", "w", "a", "r", "e">>,
      <<"c", "o", "m", "p", "u", "t", "e", "r">>,
      <<"c", "a", "p", "i", "t", "a", "l">>,
      <<"c", "o", "u", "n", "t", "r", "y">>,
      <<"c", "i", "t", "y">>,
      <<"b", "a", "k", "e">>,
      <<"c", "o", "o", "k">>,
      <<"r", "e", "c", "i", "p", "e">>,
      <<"c", "a", "k", "e">>,
      <<"w", "e", "a", "t", "h", "e", "r">>,
      <<"t", "e", "m", "p", "e", "r", "a", "t", "u", "r", "e">>,
      <<"r", "a", "i", "n">>,
      <<"l", "e", "a", "r", "n">>,
      <<"l", "a", "n", "g", "u", "a", "g", "e">>,
      <<"s", "p", "a", "n", "i", "s", "h">>,
      <<"q", "u", "a", "n", "t", "u", "m">>,
      <<"p", "h", "y", "s", "i", "c", "s">>,
      <<"s", "c", "i", "e", "n", "c", "e">>,
      <<"i", "n", "v", "e", "s", "t">>,
      <<"s", "t", "o", "c", "k", "s">>,
      <<"m", "o", "n", "e", "y">>,
      <<"t", "r", "a", "d", "i", "n", "g">>,
      <<"c", "a", "r">>,
      <<"e", "n", "g", "i", "n", "e">>,
      <<"f", "i", "x">>,
      <<"r", "e", "p", "a", "i", "r">>,
      <<"m", "a", "c", "h", "i", "n", "e", " ", "l", "e", "a", "r", "n", "i", "n", "g">>,
      <<"a", "i">>,
      <<"a", "l", "g", "o", "r", "i", "t", "h", "m">> >>

fallback_keywords_policy ==
    <<<<"v", "a", "c", "a", "t", "i", "o", "n">>,
      <<"r", "e", "m", "o", "t", "e">>,
      <<"s", "i", "c", "k">>,
      <<"h", "a", "r", "a", "s", "s", "m", "e", "n", "t">>,
      <<"d", "r", "e", "s", "s">> >>

fallback_keywords_benefits ==
    <<<<"h", "e", "a", "l", "t", "h">>,
      <<"4", "0", "1", "k">>,
      <<"r", "e", "t", "i", "r", "e", "m", "e", "n", "t">>,
      <<"w", "e", "l", "l", "n", "e", "s", "s">>,
      <<"e", "d", "u", "c", "a", "t", "i", "o", "n">> >>

fallback_keywords_payroll ==
    <<<<"p", "a", "y", "s", "l", "i", "p">>,
      <<"b", "a", "n", "k">>,
      <<"b", "o", "n", "u", "s">>,
      <<"s", "a", "l", "a", "r", "y">> >>

\* HRFAQModule._is_hr_related: the off-domain list is consulted first
ModuleIsHrRelated(q) ==
    LET question_lower == LowerStr(q)
    IN  IF \E k \in DOMAIN module_non_hr_keywords :
                Contains(question_lower, module_non_hr_keywords[k])
        THEN FALSE
        ELSE IF \E k \in DOMAIN module_hr_keywords :
                    Contains(question_lower, module_hr_keywords[k])
        THEN TRUE
        ELSE IF TokenCount(q) < MinTokens
        THEN TRUE
        ELSE TRUE

\* the kinds of answer HRFAQModule.forward can produce for a question
ModuleAnswers(q) ==
    IF ~ModuleIsHrRelated(q)
    THEN {[kind |-> "module_rejection", marker |-> TRUE]}
    ELSE {[kind |-> "module_generated", marker |-> FALSE],
          [kind |-> "module_generated", marker |-> TRUE],
          [kind |-> "module_empty", marker |-> FALSE]}

\* question.strip()
Strip(s) ==
    LET keep == {i \in 1..Len(s) : s[i] \notin Whitespace}
    IN  IF keep = {} THEN <<>>
        ELSE SubSeq(s, CHOOSE i \in keep : \A j \in keep : i <= j,
                       CHOOSE i \in keep : \A j \in keep : j <= i)

\* FALLBACK_RESPONSES.get(mode, FALLBACK_RESPONSES["policy"]) without "default"
FallbackKeywords(mode) ==
    CASE mode = "benefits" -> fallback_keywords_benefits
      [] mode = "payroll" -> fallback_keywords_payroll
      [] OTHER -> fallback_keywords_policy

\* get_fallback_response(question, mode, context) -> (answer, ood_reject)
get_fallback_response(q, mode, context) ==
    IF ~is_hr_related(q)
    THEN [answer |-> "ood_message", ood_reject |-> TRUE]
    ELSE IF context # <<>>
    THEN [answer |-> "context_excerpt", ood_reject |-> FALSE]
    ELSE IF \E k \in DOMAIN FallbackKeywords(mode) :
                Contains(LowerStr(q), FallbackKeywords(mode)[k])
    THEN [answer |-> "canned_keyword", ood_reject |-> FALSE]
    ELSE [answer |-> "canned_default", ood_reject |-> FALSE]

\* generate_rag_response(question, context, sources): None or a formatted answer
generate_rag_response(context, sources) ==
    IF context = <<>> \/ sources = <<>> THEN "None" ELSE "rag_answer"

\* what a handler sees when it does not consult the engine
NoRetrieval ==
    [context |-> <<>>, sources |-> <<>>, escaped |-> FALSE, failure |-> "none",
     found |-> <<>>, search_calls |-> 0, top_k |-> 0, category_filter |-> NoFilter,
     embed_calls |-> 0, query_calls |-> 0]

\* rag_engine and rag_engine.is_initialized
ServerRagReady(srv, engs) == srv # 0 /\ engs[srv].is_initialized

\* the retrieval step of a handler (server.py 330-332 and 410-412)
Retrieve(srv, engs, st, mode) ==
    IF ServerRagReady(srv, engs)
    THEN get_context_for_question(engs[srv], st, mode, DefaultMaxContextLength)
    ELSE {NoRetrieval}

\* the try block of /ask, given the retrieval outcome c and, when the
\* language model is consulted, its answer m
AskAnswer(q, mode, c, hasModule, m) ==
    IF c.context # <<>>
    THEN IF generate_rag_response(c.context, c.sources) # "None"
         THEN [answer |-> "rag_answer", ood_reject |-> FALSE,
               confidence |-> IF c.sources # <<>> THEN 90 ELSE 70]
         ELSE get_fallback_response(q, mode, c.context) @@ [confidence |-> 75]
    ELSE IF hasModule
    THEN [answer |-> m.kind, ood_reject |-> m.marker,
          confidence |-> IF m.marker THEN 90 ELSE 70]
    ELSE LET f == get_fallback_response(q, mode, <<>>)
         IN  f @@ [confidence |-> IF f.ood_reject THEN 95 ELSE 50]

\* the retrieval step of /ask: taken before any domain check
AskRetrieval(q, srv, engs, st, mode) == Retrieve(srv, engs, st, mode)

\* the retrieval step of /ask/stream: only for questions the gate admits
StreamRetrieval(q, srv, engs, st, mode) ==
    IF ~is_hr_related(q) THEN {NoRetrieval} ELSE Retrieve(srv, engs, st, mode)

\* the answer of generate_stream, given the retrieval outcome c
StreamAnswer(q, mode, c) ==
    IF ~is_hr_related(q)
    THEN [answer |-> "ood_message", ood_reject |-> TRUE, confidence |-> 80]
    ELSE IF c.context # <<>>
    THEN IF generate_rag_response(c.context, c.sources) # "None"
         THEN [answer |-> "rag_answer", ood_reject |-> FALSE, confidence |-> 80]
         ELSE get_fallback_response(q, mode, c.context) @@ [confidence |-> 80]
    ELSE get_fallback_response(q, mode, <<>>) @@ [confidence |-> 80]

(***************************************************************************)
(* MarkdownParser: parse_file and parse_directory                          *)
(***************************************************************************)
\* the least element of a non-empty set of integers
Least(S) == CHOOSE x \in S : \A y \in S : x <= y

RECURSIVE Ascending(_)
\* sorted(S) for a finite set of integers
Ascending(S) ==
    IF S = {} THEN <<>> ELSE <<Least(S)>> \o Ascending(S \ {Least(S)})

\* the index of the last character of the run of non-newline characters
\* that starts at p (p - 1 when there is none)
LineEnd(s, p) ==
    LET stops == {j \in p..Len(s) : s[j] = "\n"}
    IN  IF stops = {} THEN Len(s) ELSE Least(stops) - 1

\* the length of the run of whitespace that starts at p
WhitespaceRun(s, p) ==
    LET others == {j \in p..Len(s) : s[j] \notin Whitespace}
    IN  (IF others = {} THEN Len(s) + 1 ELSE Least(others)) - p

\* a match at p of n '#' characters, then \s+ (min_ws = 1) or \s* (min_ws = 0),
\* then a group of one or more non-newline characters up to the end of the
\* line.  The whitespace is matched greedily and given back one character
\* at a time until the group can start; \s also matches a newline.
HeadingMatch(s, p, n, min_ws) ==
    LET hashes == p + n - 1 <= Len(s) /\ \A j \in p..(p + n - 1) : s[j] = "#"
        w == WhitespaceRun(s, p + n)
        starts == {k \in min_ws..w : p + n + k <= Len(s) /\ s[p + n + k] # "\n"}
        k == CHOOSE x \in starts : \A y \in starts : y <= x
        q == p + n + k
    IN  IF hashes /\ starts # {}
        THEN [matched |-> TRUE, group |-> SubSeq(s, q, LineEnd(s, q))]
        ELSE [matched |-> FALSE, group |-> <<>>]

\* re.search(r"^#\s+(.+)$", content, re.MULTILINE): the first line start at
\* which the pattern matches
TitleMatch(content) ==
    LET at == {p \in 1..Len(content) :
                  /\ (p = 1 \/ content[p - 1] = "\n")
                  /\ HeadingMatch(content, p, 1, 1).matched}
    IN  IF at = {} THEN [matched |-> FALSE, group |-> <<>>]
        ELSE HeadingMatch(content, Least(at), 1, 1)

\* Path(file_path).stem: the final component without its last suffix
Stem(file_path) ==
    LET slashes == {j \in 1..Len(file_path) : file_path[j] = "/"}
        from == IF slashes = {} THEN 1
                ELSE (CHOOSE x \in slashes : \A y \in slashes : y <= x) + 1
        name == SubSeq(file_path, from, Len(file_path))
        dots == {j \in 2..Len(name) : name[j] = "."}
    IN  IF dots = {} THEN name
        ELSE SubSeq(name, 1, (CHOOSE x \in dots : \A y \in dots : y <= x) - 1)

\* the document title with the search for a top-level heading left out
DocTitle_StemOnly(file_path, content) == Stem(file_path)

\* doc_title = title_match.group(1) if title_match else Path(file_path).stem
DocTitle(file_path, content) ==
    IF TitleMatch(content).matched THEN TitleMatch(content).group
    ELSE Stem(file_path)

\* re.split(r"\n(?=##\s)", content): the newlines at which content is cut
SplitPoints(content) ==
    {i \in 1..(Len(content) - 3) :
        /\ content[i] = "\n"
        /\ content[i + 1] = "#"
        /\ content[i + 2] = "#"
        /\ content[i + 3] \in Whitespace}

\* sections = re.split(...): the pieces between the cuts, in order
Sections(content) ==
    LET cuts == Ascending(SplitPoints(content))
        n == Len(cuts)
    IN  [k \in 1..(n + 1) |->
            SubSeq(content,
                   IF k = 1 THEN 1 ELSE cuts[k - 1] + 1,
                   IF k = n + 1 THEN Len(content) ELSE cuts[k] - 1)]

Digits == <<"0", "1", "2", "3", "4", "5", "6", "7", "8", "9">>

RECURSIVE Str(_)
\* str(i) for i >= 0
Str(i) == IF i < 10 THEN <<Digits[i + 1]>> ELSE Str(i \div 10) \o <<Digits[(i % 10) + 1]>>

\* f"Section {i}"
DefaultSectionTitle(i) == <<"S", "e", "c", "t", "i", "o", "n", " ">> \o Str(i)

\* re.search(r"^##\s*(.+?)(?:\n|$)", section), group(1).strip(), else
\* f"Section {i}"
SectionTitle(section, i) ==
    IF HeadingMatch(section, 1, 2, 0).matched
    THEN Strip(HeadingMatch(section, 1, 2, 0).group)
    ELSE DefaultSectionTitle(i)

MinSectionLength == 50

\* hashlib.md5(text.encode()).hexdigest()[:12]: the digest is kept abstract,
\* one value per hashed text
Md5Prefix(text) == [md5 |-> text]

\* the chunk id with the section content hashed in
ChunkId_WithContent(file_path, section_title, i, section_content) ==
    Md5Prefix(file_path \o <<":">> \o section_title \o <<":">> \o Str(i)
              \o <<":">> \o section_content)

\* hashlib.md5(f"{file_path}:{section_title}:{i}".encode()).hexdigest()[:12]
ChunkId(file_path, section_title, i, section_content) ==
    Md5Prefix(file_path \o <<":">> \o section_title \o <<":">> \o Str(i))

kw_policies == <<"p", "o", "l", "i", "c", "i", "e", "s">>
kw_benefits == <<"b", "e", "n", "e", "f", "i", "t", "s">>
kw_payroll == <<"p", "a", "y", "r", "o", "l", "l">>
kw_onboarding == <<"o", "n", "b", "o", "a", "r", "d", "i", "n", "g">>

\* the category chain of parse_file
CategoryOf(file_path) ==
    LET path_lower == LowerStr(file_path)
    IN  IF Contains(path_lower, kw_policies) THEN "policy"
        ELSE IF Contains(path_lower, kw_benefits) THEN "benefits"
        ELSE IF Contains(path_lower, kw_payroll) THEN "payroll"
        ELSE IF Contains(path_lower, kw_onboarding) THEN "onboarding"
        ELSE "general"

\* section = f"{doc_title} - {section_title}"
SectionLabel(doc_title, section_title) ==
    doc_title \o <<" ", "-", " ">> \o section_title

\* the chunk of section number i (counted from 0); index is i itself, which
\* the DocumentChunk does not store
MakeChunk(file_path, doc_title, section, i) ==
    [content       |-> Strip(section),
     source_file   |-> file_path,
     section       |-> SectionLabel(doc_title, SectionTitle(section, i)),
     chunk_id      |-> ChunkId(file_path, SectionTitle(section, i), i, Strip(section)),
     category      |-> CategoryOf(file_path),
     doc_title     |-> doc_title,
     section_title |-> SectionTitle(section, i),
     index         |-> i]

\* the loop body of parse_file with the length test left out
Survives_NoMinimum(section) == Strip(section) # <<>>

\* the two continue statements: blank sections and sections whose stripped
\* content is shorter than 50 characters are skipped
Survives(section) ==
    /\ Strip(section) # <<>>
    /\ Len(Strip(section)) >= MinSectionLength

RECURSIVE ChunkLoop(_, _, _, _)
\* for i, section in enumerate(sections), from section number k + 1 on
ChunkLoop(file_path, doc_title, sections, k) ==
    IF k > Len(sections) THEN <<>>
    ELSE (IF Survives(sections[k])
          THEN <<MakeChunk(file_path, doc_title, sections[k], k - 1)>>
          ELSE <<>>)
         \o ChunkLoop(file_path, doc_title, sections, k + 1)

\* MarkdownParser.parse_file(file_path) for a file that can be read
parse_file(file_path, content) ==
    ChunkLoop(file_path, DocTitle(file_path, content), Sections(content), 1)

\* a directory that does not exist
NoDirectory == [exists |-> FALSE, files |-> <<>>]

\* parse_directory without the try around parse_file: the first file that
\* fails ends the call
FileChunks_Abort(file) ==
    IF file.readable
    THEN [raised |-> FALSE, chunks |-> parse_file(file.path, file.content)]
    ELSE [raised |-> TRUE, chunks |-> <<>>]

\* try: chunks.extend(parse_file(...)) except Exception: print(...)
FileChunks(file) ==
    IF file.readable
    THEN [raised |-> FALSE, chunks |-> parse_file(file.path, file.content)]
    ELSE [raised |-> FALSE, chunks |-> <<>>]

RECURSIVE DirectoryLoop(_, _)
\* for md_file in directory_path.rglob("*.md"), from file k on
DirectoryLoop(files, k) ==
    IF k > Len(files) THEN [raised |-> FALSE, chunks |-> <<>>]
    ELSE LET head == FileChunks(files[k])
             rest == DirectoryLoop(files, k + 1)
         IN  IF head.raised THEN head
             ELSE [raised |-> rest.raised, chunks |-> head.chunks \o rest.chunks]

\* MarkdownParser.parse_directory(directory)
parse_directory(dir) ==
    IF ~dir.exists THEN [raised |-> FALSE, chunks |-> <<>>]
    ELSE DirectoryLoop(dir.files, 1)

(***************************************************************************)
(* The engine and the server: state                                        *)
(***************************************************************************)
EngineIds == 1..MaxEngines

\* embedding_model: str = "all-MiniLM-L6-v2"
DefaultEmbeddingModel == "all-MiniLM-L6-v2"

\* the models a caller of RAGEngine(...) can name
EmbeddingModels == {DefaultEmbeddingModel, "all-mpnet-base-v2"}

\* an identity no RAGEngine() call has produced yet
\* company_data_path: the default of __init__ and get_rag_engine, and another
DefaultCompanyDataPath == "company_data/techcorp_solutions"
CompanyDataPaths == {DefaultCompanyDataPath, "company_data/acme"}

NoEngine ==
    [constructed |-> FALSE, embedding_model_name |-> DefaultEmbeddingModel,
     company_data_path |-> DefaultCompanyDataPath,
     embedder |-> FALSE, client |-> FALSE,
     collection |-> 0, is_initialized |-> FALSE]

\* RAGEngine.__init__: the fields of a new object
FreshEngine ==
    [constructed |-> TRUE, embedding_model_name |-> DefaultEmbeddingModel,
     company_data_path |-> DefaultCompanyDataPath,
     embedder |-> FALSE, client |-> FALSE,
     collection |-> 0, is_initialized |-> FALSE]

\* no thread is executing initialize on the engine
Idle == [pc |-> "idle"]

\* the engine and server variables before anything was constructed
EngineAtRest ==
    /\ chromadb = FALSE
    /\ SentenceTransformer = FALSE
    /\ engines = [e \in EngineIds |-> NoEngine]
    /\ rag_engine_global = 0
    /\ server_rag_engine = 0
    /\ hr_module = FALSE
    /\ store = NoStore
    /\ uid_counter = 0
    /\ last_init = [e \in EngineIds |-> "never"]
    /\ threads = [e \in EngineIds |-> Idle]

(***************************************************************************)
(* Inputs of the context assembler                                         *)
(***************************************************************************)
Alphabet == <<"a", "b", "c", "d", "e", "f", "g">>

\* a passage of n characters; off makes passages of different chunks differ
Content(off, n) == [j \in 1..n |-> Alphabet[((j + off) % Len(Alphabet)) + 1]]

ContentLens == {0, 10, 100, 300, 500}
BudgetValues == {0, 10, 100, 250, 300, 301, 700}

SampleSections == {<<"P", " ", "-", " ", "V">>, <<"B">>}

SectionOffset(sec) == IF Len(sec) = 1 THEN 3 ELSE 0

SampleResults ==
    { [content    |-> Content(SectionOffset(sec), n),
       section    |-> sec,
       category   |-> IF Len(sec) = 1 THEN "benefits" ELSE "policy",
       similarity |-> 820] : sec \in SampleSections, n \in ContentLens }

ResultLists == UNION { [1..k -> SampleResults] : k \in 0..MaxResults }

NoCall == [op |-> "none"]

InitCtx ==
    /\ directory = NoDirectory
    /\ results \in ResultLists
    /\ max_context_length \in BudgetValues
    /\ ret = NoCall
    /\ question = <<>>
    /\ EngineAtRest

\* get_context_for_question applied to a given search result list
Assemble ==
    /\ ret.op = "none"
    /\ ret' = [op |-> "assemble"] @@ BuildContext(results, max_context_length)
    /\ UNCHANGED <<results, max_context_length, question, engineVars, directory,
                   threads>>

NextCtx == Assemble

SpecCtx == InitCtx /\ [][NextCtx]_vars

(***************************************************************************)
(* Inputs of the domain gate                                               *)
(***************************************************************************)
QuestionChars == {"h", "r", "H", "c", "a", " "}

Questions == UNION { [1..n -> QuestionChars] : n \in 0..MaxQLen }

InitGate ==
    /\ directory = NoDirectory
    /\ question \in Questions
    /\ results = <<>>
    /\ max_context_length = 0
    /\ ret = NoCall
    /\ EngineAtRest

\* is_hr_related applied to a given question
Classify ==
    /\ ret.op = "none"
    /\ ret' = [op |-> "is_hr_related", value |-> is_hr_related(question)]
    /\ UNCHANGED <<results, max_context_length, question, engineVars, directory,
                   threads>>

NextGate == Classify

SpecGate == InitGate /\ [][NextGate]_vars

(***************************************************************************)
(* Inputs of the chunker                                                   *)
(***************************************************************************)
LineTitle == <<"#", " ", "A", "c", "m", "e", " ", "P", "o", "l", "i", "c", "i", "e", "s">>
LineVacation == <<"#", "#", " ", "V", "a", "c", "a", "t", "i", "o", "n">>
LineDetails == <<"#", "#", "#", " ", "D", "e", "t", "a", "i", "l", "s">>
LineBlank == <<>>

\* the lines documents are made of: a top-level heading, a second-level
\* heading, a third-level heading, a blank line, and passages that bring a
\* section headed by LineVacation to 49, 50 and 92 characters
SampleLines ==
    {LineTitle, LineVacation, LineDetails, LineBlank,
     Content(2, 37), Content(1, 38), Content(0, 80)}

LineSeqs == UNION {[1..n -> SampleLines] : n \in 0..MaxLines}

\* "\n".join(lines)
Document(lines) == Join(lines, <<"\n">>)

PathPoliciesPayroll == <<"p", "o", "l", "i", "c", "i", "e", "s", "/", "p", "a", "y", "r", "o", "l", "l", ".", "m", "d">>
PathBenefits == <<"B", "e", "n", "e", "f", "i", "t", "s", "/", "o", "n", "b", "o", "a", "r", "d", "i", "n", "g", ".", "m", "d">>
PathPolicy == <<"h", "r", "/", "p", "o", "l", "i", "c", "y", ".", "m", "d">>
PathFaq == <<"d", "o", "c", "s", "/", "f", "a", "q", ".", "m", "d">>

SamplePaths == {PathPoliciesPayroll, PathBenefits, PathPolicy, PathFaq}

\* a file that cannot be read or decoded: open() or f.read() raises
Unreadable(path) == [path |-> path, content |-> <<>>, readable |-> FALSE]

\* documents with one chunk (a headed section, or heading-free text) and
\* with none
FewLineSeqs ==
    {<<LineTitle, LineVacation, Content(0, 80)>>, <<Content(0, 80)>>,
     <<LineVacation, Content(2, 37)>>}

\* every document at two of the paths, a few documents at every path
SampleFiles ==
    {[path |-> p, content |-> Document(l), readable |-> TRUE] :
        p \in {PathPoliciesPayroll, PathPolicy}, l \in LineSeqs}
    \cup {[path |-> p, content |-> Document(l), readable |-> TRUE] :
            p \in SamplePaths, l \in FewLineSeqs}
    \cup {Unreadable(p) : p \in SamplePaths}

\* the files directories of several files are made of
DirectoryFiles ==
    {[path |-> p, content |-> Document(l), readable |-> TRUE] :
        p \in {PathPoliciesPayroll, PathFaq}, l \in FewLineSeqs}
    \cup {Unreadable(p) : p \in {PathPoliciesPayroll, PathFaq}}

\* the document roots: missing, holding one file of any kind, or holding up
\* to MaxFiles files with different paths, in the order rglob yields them
Directories ==
    {NoDirectory}
    \cup {[exists |-> TRUE, files |-> <<f>>] : f \in SampleFiles}
    \cup {[exists |-> TRUE, files |-> fs] :
            fs \in {s \in UNION {[1..n -> DirectoryFiles] : n \in 0..MaxFiles} :
                        \A i, j \in DOMAIN s : s[i].path = s[j].path => i = j}}

InitChunk ==
    /\ directory \in Directories
    /\ results = <<>>
    /\ max_context_length = 0
    /\ question = <<>>
    /\ ret = NoCall
    /\ EngineAtRest

\* MarkdownParser.parse_file(path) on a file of the directory
ParseFileCall ==
    /\ ret.op = "none"
    /\ \E i \in DOMAIN directory.files :
        LET file == directory.files[i]
        IN  ret' = [op |-> "parse_file", path |-> file.path,
                    content |-> file.content, escaped |-> ~file.readable,
                    chunks |-> IF file.readable
                               THEN parse_file(file.path, file.content)
                               ELSE <<>>]
    /\ UNCHANGED <<directory, results, max_context_length, question, engineVars,
                   threads>>

\* MarkdownParser.parse_directory(directory)
ParseDirectoryCall ==
    /\ ret.op = "none"
    /\ ret' = [op |-> "parse_directory", escaped |-> parse_directory(directory).raised,
               chunks |-> parse_directory(directory).chunks]
    /\ UNCHANGED <<directory, results, max_context_length, question, engineVars,
                   threads>>

NextChunk ==
    \/ ParseFileCall
    \/ ParseDirectoryCall

SpecChunk == InitChunk /\ [][NextChunk]_vars

(***************************************************************************)
(* Inputs of the engine and the server                                     *)
(***************************************************************************)
ChunkVacation ==
    [chunk_id |-> "c1", content |-> Content(0, 60),
     section |-> <<"P", " ", "-", " ", "V">>, category |-> "policy"]

ChunkHealth ==
    [chunk_id |-> "c2", content |-> Content(3, 55),
     section |-> <<"B">>, category |-> "benefits"]

\* a chunk of another file whose "path:title:index" string, and so whose id,
\* equals that of ChunkVacation
ChunkClash ==
    [chunk_id |-> "c1", content |-> Content(5, 50),
     section |-> <<"Y">>, category |-> "payroll"]

\* what parse_directory can return for the document root
SampleCorpora ==
    { <<>>, <<ChunkVacation>>, <<ChunkVacation, ChunkHealth>>,
      <<ChunkVacation, ChunkClash>> }

\* collections an earlier run can have left in the persist directory
PersistedStores ==
    {NoStore} \cup
    { [exists |-> TRUE, uid |-> 1, docs |-> [i \in DOMAIN c |-> EntryOf(c[i])],
       embedded_by |-> IF c = <<>> THEN NoModel ELSE DefaultEmbeddingModel] :
        c \in {c \in SampleCorpora : DistinctIds(c)} }

Modes == {"policy", "benefits", "payroll", "other"}
Filters == {NoFilter, "benefits", "payroll"}
TopKValues == {1, TopK}
ContextBudgets == {40, DefaultMaxContextLength}

ServerQuestions ==
    { <<"h", "r">>, <<"c", "a", "r">>, <<"H", "i">>, <<" ">> }

InitEngine ==
    /\ directory = NoDirectory
    /\ results = <<>>
    /\ max_context_length = 0
    /\ question = <<>>
    /\ ret = NoCall
    /\ chromadb = FALSE
    /\ SentenceTransformer = FALSE
    /\ engines = [e \in EngineIds |-> NoEngine]
    /\ rag_engine_global = 0
    /\ server_rag_engine = 0
    /\ hr_module = FALSE
    /\ store \in PersistedStores
    /\ uid_counter = store.uid
    /\ last_init = [e \in EngineIds |-> "never"]
    /\ threads = [e \in EngineIds |-> Idle]

argumentVars == <<results, max_context_length, question, directory>>

\* what a call made while no thread is inside initialize leaves alone
frameVars == <<argumentVars, threads>>

\* calls are made one after another: the previous call's value has been taken
Returned == ret = NoCall

(***************************************************************************)
(* RAGEngine.initialize and _create_and_populate_collection                *)
(*                                                                         *)
(* A run of initialize is a walk over the positions below.  A configuration*)
(* c holds the position (pc), whether control is in the body (attempt 1)   *)
(* or in the except clause (attempt 2) of the inner try, the engine's      *)
(* fields (eng), the collection (st), and a log of the index operations    *)
(* performed (ops), of the calls that raised (failed) and of the chunks    *)
(* parse_directory returned.  Every call into the embedding model or the   *)
(* index either succeeds or raises.                                        *)
(***************************************************************************)
\* the configuration in which eng.initialize(force) is entered
StartInitialize(eng, st, uid, force) ==
    [pc |-> "deps", attempt |-> 1, force |-> force, eng |-> eng, st |-> st,
     uid |-> uid, pre |-> st, ops |-> {}, failed |-> {}, chunks |-> <<>>,
     parsed |-> FALSE]

\* an exception inside the inner try (attempt 1) enters its except clause,
\* which calls _create_and_populate_collection again; one raised there
\* (attempt 2) reaches the outer except clause: return False
Raise(c, tag) ==
    IF c.attempt = 1
    THEN [c EXCEPT !.pc = "create", !.attempt = 2, !.failed = @ \cup {tag}]
    ELSE [c EXCEPT !.pc = "ret_false", !.failed = @ \cup {tag}]

\* if chromadb is None or SentenceTransformer is None: return False
CheckDependencies(c, depsLoaded) ==
    IF depsLoaded
    THEN {[c EXCEPT !.pc = "embedder"]}
    ELSE {[c EXCEPT !.pc = "ret_false", !.failed = @ \cup {"dependencies"}]}

\* self.embedder = SentenceTransformer(self.embedding_model_name)
LoadEmbedder(c) ==
    { [c EXCEPT !.pc = "client", !.eng.embedder = TRUE],
      [c EXCEPT !.pc = "ret_false", !.failed = @ \cup {"embedder"}] }

\* os.makedirs(...); self.client = chromadb.PersistentClient(...)
OpenClient(c) ==
    { [c EXCEPT !.pc = "get", !.eng.client = TRUE],
      [c EXCEPT !.pc = "ret_false", !.failed = @ \cup {"client"}] }

\* self.collection = self.client.get_collection(self.collection_name);
\* raises when there is no such collection
GetCollection(c) ==
    (IF c.st.exists
     THEN {[c EXCEPT !.pc = "count", !.eng.collection = c.st.uid]}
     ELSE {})
    \cup {Raise(c, "get_collection")}

\* the rebuild condition with the test of the count left out
NeedsRebuild_Always(force_rebuild, doc_count) == TRUE

\* if force_rebuild or doc_count == 0
NeedsRebuild(force_rebuild, doc_count) == force_rebuild \/ doc_count = 0

\* self.collection is a handle to the collection the directory now holds,
\* not to one that has since been dropped
HandleIsLive(c) == c.st.exists /\ c.eng.collection = c.st.uid

\* doc_count = self.collection.count() and the test that follows; raises on
\* a handle to a dropped collection
CountDocuments(c) ==
    (IF HandleIsLive(c)
     THEN {[c EXCEPT !.pc = IF NeedsRebuild(c.force, Len(c.st.docs))
                            THEN "delete" ELSE "ret_true"]}
     ELSE {})
    \cup {Raise(c, "count")}

\* self.client.delete_collection(self.collection_name); raises when there is
\* no collection of that name
DeleteCollection(c) ==
    (IF c.st.exists
     THEN {[c EXCEPT !.pc = "create", !.st = NoStore, !.ops = @ \cup {"delete"}]}
     ELSE {})
    \cup {Raise(c, "delete")}

\* self.collection = self.client.create_collection(name=..., metadata=...);
\* raises when a collection of that name exists
CreateCollection(c) ==
    (IF ~c.st.exists /\ c.uid < MaxUid
     THEN {[c EXCEPT !.pc = "parse", !.uid = c.uid + 1,
                     !.st = [exists |-> TRUE, uid |-> c.uid + 1, docs |-> <<>>,
                             embedded_by |-> NoModel],
                     !.eng.collection = c.uid + 1,
                     !.ops = @ \cup {"create"}]}
     ELSE {})
    \cup {Raise(c, "create")}

\* chunks = MarkdownParser.parse_directory(...); if not chunks: return
ParseDirectory(c, corpora) ==
    { [c EXCEPT !.pc = IF chunks = <<>> THEN "ret_true" ELSE "encode",
                !.chunks = chunks, !.parsed = TRUE, !.ops = @ \cup {"chunk"}] :
        chunks \in corpora }

\* embeddings = self.embedder.encode(documents, ...).tolist()
EncodeDocuments(c) ==
    { [c EXCEPT !.pc = "add", !.ops = @ \cup {"embed"}], Raise(c, "encode") }

\* the entries inserted for the chunks, with the last chunk left out
InsertedEntries_DropLast(chunks) ==
    [i \in 1..(Len(chunks) - 1) |-> EntryOf(chunks[i])]

\* documents, metadatas, ids: one entry per chunk, in order
InsertedEntries(chunks) == [i \in DOMAIN chunks |-> EntryOf(chunks[i])]

\* self.collection.add(documents=..., embeddings=..., metadatas=..., ids=...);
\* raises on a batch in which an id occurs twice and on a handle to a dropped
\* collection
AddToCollection(c) ==
    (IF DistinctIds(c.chunks) /\ HandleIsLive(c)
     THEN {[c EXCEPT !.pc = "ret_true", !.st.docs = InsertedEntries(c.chunks),
                     !.st.embedded_by = c.eng.embedding_model_name,
                     !.ops = @ \cup {"insert"}]}
     ELSE {})
    \cup {Raise(c, "add")}

\* one step of initialize from configuration c
InitializeStep(c, depsLoaded, corpora) ==
    CASE c.pc = "deps" -> CheckDependencies(c, depsLoaded)
      [] c.pc = "embedder" -> LoadEmbedder(c)
      [] c.pc = "client" -> OpenClient(c)
      [] c.pc = "get" -> GetCollection(c)
      [] c.pc = "count" -> CountDocuments(c)
      [] c.pc = "delete" -> DeleteCollection(c)
      [] c.pc = "create" -> CreateCollection(c)
      [] c.pc = "parse" -> ParseDirectory(c, corpora)
      [] c.pc = "encode" -> EncodeDocuments(c)
      [] c.pc = "add" -> AddToCollection(c)

RECURSIVE RunInitialize(_, _, _)
\* the configurations in which a run from c can return
RunInitialize(c, depsLoaded, corpora) ==
    IF c.pc \in {"ret_true", "ret_false"} THEN {c}
    ELSE UNION { RunInitialize(d, depsLoaded, corpora) :
                    d \in InitializeStep(c, depsLoaded, corpora) }

\* self.is_initialized = True on success; the flag is not touched on failure
ReadyAfter(was, value) == was \/ value

\* the possible outcomes of eng.initialize(force): the value returned and the
\* engine, collection and logs it leaves behind
initialize(eng, st, uid, force, depsLoaded, corpora) ==
    { [value |-> c.pc = "ret_true",
       eng   |-> [c.eng EXCEPT !.is_initialized = ReadyAfter(@, c.pc = "ret_true")],
       st    |-> c.st, uid |-> c.uid, force |-> force, pre |-> c.pre,
       ops   |-> c.ops, failed |-> c.failed, chunks |-> c.chunks,
       parsed |-> c.parsed] :
        c \in RunInitialize(StartInitialize(eng, st, uid, force), depsLoaded, corpora) }

\* the return record of an initialize call on engine e
InitializeRet(e, caller, out) ==
    [op |-> "initialize", eid |-> e, caller |-> caller, value |-> out.value,
     force |-> out.force, pre |-> out.pre, ops |-> out.ops, failed |-> out.failed,
     chunks |-> out.chunks, parsed |-> out.parsed]

(***************************************************************************)
(* Construction: RAGEngine.__init__ and get_rag_engine                     *)
(***************************************************************************)
Unconstructed == {e \in EngineIds : ~engines[e].constructed}

\* the identity of the next object
NextEngine == CHOOSE e \in Unconstructed : \A f \in Unconstructed : e <= f

\* _load_dependencies: an import is attempted for each global that is None
LoadDependencies ==
    /\ chromadb' \in (IF chromadb THEN {TRUE} ELSE BOOLEAN)
    /\ SentenceTransformer' \in (IF SentenceTransformer THEN {TRUE} ELSE BOOLEAN)

\* RAGEngine(...): a library caller constructs an engine
NewEngine ==
    /\ Returned
    /\ Unconstructed # {}
    /\ NextEngine <= MaxDirectEngines
    /\ LoadDependencies
    /\ \/ \E embedding_model \in EmbeddingModels :
          /\ engines' = [engines EXCEPT ![NextEngine] =
                            [FreshEngine EXCEPT !.embedding_model_name = embedding_model]]
          /\ ret' = [op |-> "RAGEngine", eid |-> NextEngine, escaped |-> FALSE]
       \/ \* _load_company_info raises on an unreadable company_info.json
          /\ engines' = engines
          /\ ret' = [op |-> "RAGEngine", eid |-> 0, escaped |-> TRUE]
    /\ UNCHANGED <<rag_engine_global, server_rag_engine, hr_module, store,
                   uid_counter, last_init, frameVars>>

\* engine.initialize(force_rebuild) called by a library caller
Initialize ==
    /\ Returned
    /\ \E e \in EngineIds, force \in BOOLEAN :
        /\ engines[e].constructed
        /\ \E out \in initialize(engines[e], store, uid_counter, force,
                                 chromadb /\ SentenceTransformer, SampleCorpora) :
            /\ engines' = [engines EXCEPT ![e] = out.eng]
            /\ store' = out.st
            /\ uid_counter' = out.uid
            /\ last_init' = [last_init EXCEPT ![e] = IF out.value THEN "true" ELSE "false"]
            /\ ret' = InitializeRet(e, "direct", out)
    /\ UNCHANGED <<chromadb, SentenceTransformer, rag_engine_global,
                   server_rag_engine, hr_module, frameVars>>

\* get_rag_engine with the test of the singleton left out: every call
\* constructs
get_rag_engine_Always(company_data_path, force_init, caller) ==
    /\ Unconstructed # {}
    /\ LoadDependencies
    /\ \/ \E out \in initialize(
                [FreshEngine EXCEPT !.company_data_path = company_data_path],
                store, uid_counter, FALSE,
                chromadb' /\ SentenceTransformer', SampleCorpora) :
            /\ engines' = [engines EXCEPT ![NextEngine] = out.eng]
            /\ rag_engine_global' = NextEngine
            /\ store' = out.st
            /\ uid_counter' = out.uid
            /\ last_init' = [last_init EXCEPT ![NextEngine] = IF out.value THEN "true" ELSE "false"]
            /\ ret' = InitializeRet(NextEngine, caller, out)
                        @@ [company_data_path |-> company_data_path,
                            force_init |-> force_init]
       \/ /\ UNCHANGED <<engines, rag_engine_global, store, uid_counter, last_init>>
          /\ ret' = [op |-> caller, eid |-> 0, escaped |-> TRUE,
                     company_data_path |-> company_data_path,
                     force_init |-> force_init]

\* get_rag_engine(company_data_path, force_init) called by caller: either
\* the singleton is returned as it is, or a new engine is constructed, made
\* the singleton and initialized
get_rag_engine(company_data_path, force_init, caller) ==
    IF rag_engine_global = 0 \/ force_init
    THEN /\ Unconstructed # {}
         /\ LoadDependencies
         /\ \/ \E out \in initialize(
                     [FreshEngine EXCEPT !.company_data_path = company_data_path],
                     store, uid_counter, FALSE,
                     chromadb' /\ SentenceTransformer', SampleCorpora) :
                 /\ engines' = [engines EXCEPT ![NextEngine] = out.eng]
                 /\ rag_engine_global' = NextEngine
                 /\ store' = out.st
                 /\ uid_counter' = out.uid
                 /\ last_init' = [last_init EXCEPT ![NextEngine] = IF out.value THEN "true" ELSE "false"]
                 /\ ret' = InitializeRet(NextEngine, caller, out)
                             @@ [company_data_path |-> company_data_path,
                                 force_init |-> force_init]
            \/ \* the constructor raises: nothing is assigned
               /\ UNCHANGED <<engines, rag_engine_global, store, uid_counter, last_init>>
               /\ ret' = [op |-> caller, eid |-> 0, escaped |-> TRUE,
                          company_data_path |-> company_data_path,
                          force_init |-> force_init]
    ELSE /\ ret' = [op |-> caller, eid |-> rag_engine_global, escaped |-> FALSE,
                    company_data_path |-> company_data_path,
                    force_init |-> force_init]
         /\ UNCHANGED <<chromadb, SentenceTransformer, engines, rag_engine_global,
                        store, uid_counter, last_init>>

\* get_rag_engine called from outside server.py: with force_init=True and
\* the default path (the module's own main), or with force_init=False and a
\* path of the caller's choice (the retrieval tests)
GetRagEngine ==
    /\ Returned
    /\ \/ get_rag_engine(DefaultCompanyDataPath, TRUE, "get_rag_engine")
       \/ \E company_data_path \in CompanyDataPaths :
            get_rag_engine(company_data_path, FALSE, "get_rag_engine")
    /\ UNCHANGED <<server_rag_engine, hr_module, frameVars>>

\* load_rag_engine: the global is assigned unless get_rag_engine raised
AssignServerEngine ==
    server_rag_engine' = IF ret'.op = "initialize" THEN ret'.eid ELSE server_rag_engine

\* startup_event: load_rag_engine() and then load_model(), which assigns
\* hr_module unless the adapter or the module raises
Startup ==
    /\ Returned
    /\ get_rag_engine(DefaultCompanyDataPath, TRUE, "load_rag_engine")
    /\ AssignServerEngine
    /\ hr_module' \in {TRUE, hr_module}
    /\ UNCHANGED frameVars

\* POST /rebuild-index
RebuildIndex ==
    /\ Returned
    /\ get_rag_engine(DefaultCompanyDataPath, TRUE, "rebuild_index")
    /\ AssignServerEngine
    /\ UNCHANGED <<hr_module, frameVars>>

\* what rebuild_index answers for the call recorded in r, given the engine
\* get_rag_engine returned: 500 when get_rag_engine raised
RebuildIndexStatus(r, engs) ==
    IF r.op = "rebuild_index" THEN "500"
    ELSE IF engs[r.eid].is_initialized THEN "success" ELSE "partial"

(***************************************************************************)
(* Reads: search, get_context_for_question, /ask, /ask/stream              *)
(***************************************************************************)
readFrame == <<engineVars, frameVars>>

\* engine.search(query, top_k, category_filter) by a library caller
Search ==
    /\ Returned
    /\ \E e \in EngineIds, top_k \in TopKValues, cat \in Filters :
        /\ engines[e].constructed
        /\ \E out \in search(engines[e], store, top_k, cat) :
            ret' = [op |-> "search", eid |-> e, top_k |-> top_k,
                    category_filter |-> cat] @@ out
    /\ UNCHANGED readFrame

\* engine.get_context_for_question(question, mode, max_context_length)
GetContext ==
    /\ Returned
    /\ \E e \in EngineIds, mode \in Modes, maxlen \in ContextBudgets :
        /\ engines[e].constructed
        /\ \E out \in get_context_for_question(engines[e], store, mode, maxlen) :
            ret' = [op |-> "get_context_for_question", eid |-> e, mode |-> mode,
                    maxlen |-> maxlen] @@ out
    /\ UNCHANGED readFrame

\* the response of a serving path
Response(path, q, mode, status, c, a) ==
    [op |-> path, question |-> q, mode |-> mode, status |-> status,
     answer |-> a.answer, ood_reject |-> a.ood_reject, confidence |-> a.confidence,
     n_sources |-> Len(c.sources), search_calls |-> c.search_calls,
     embed_calls |-> c.embed_calls, query_calls |-> c.query_calls]

NoAnswer == [answer |-> "none", ood_reject |-> FALSE, confidence |-> 0]

\* POST /ask
Ask ==
    /\ Returned
    /\ \E raw \in ServerQuestions, mode \in Modes :
        LET q == Strip(raw)
        IN  IF q = <<>>
            THEN ret' = Response("/ask", q, mode, 400, NoRetrieval, NoAnswer)
            ELSE \E c \in AskRetrieval(q, server_rag_engine, engines, store, mode),
                    m \in ModuleAnswers(q) :
                    ret' = IF c.escaped
                           THEN Response("/ask", q, mode, 500, c, NoAnswer)
                           ELSE Response("/ask", q, mode, 200, c,
                                         AskAnswer(q, mode, c, hr_module, m))
    /\ UNCHANGED readFrame

\* POST /ask/stream, up to the answer that is then streamed word by word
AskStream ==
    /\ Returned
    /\ \E raw \in ServerQuestions, mode \in Modes :
        LET q == Strip(raw)
        IN  IF q = <<>>
            THEN ret' = Response("/ask/stream", q, mode, 400, NoRetrieval, NoAnswer)
            ELSE \E c \in StreamRetrieval(q, server_rag_engine, engines, store, mode) :
                    ret' = IF c.escaped
                           THEN Response("/ask/stream", q, mode, 500, c, NoAnswer)
                           ELSE Response("/ask/stream", q, mode, 200, c,
                                         StreamAnswer(q, mode, c))
    /\ UNCHANGED readFrame

\* the caller takes the value the call returned
Return ==
    /\ ~Returned
    /\ ret' = NoCall
    /\ UNCHANGED <<engineVars, frameVars>>

\* the engine as a library: objects constructed and used directly
Next ==
    \/ NewEngine
    \/ Initialize
    \/ Search
    \/ GetContext
    \/ Return

Spec == InitEngine /\ [][Next]_vars

\* the engine behind get_rag_engine and the HTTP service
NextServer ==
    \/ GetRagEngine
    \/ Startup
    \/ RebuildIndex
    \/ Ask
    \/ AskStream
    \/ Return

SpecServer == InitEngine /\ [][NextServer]_vars

(***************************************************************************)
(* initialize called from several threads                                  *)
(*                                                                         *)
(* Nothing in rag_engine.py serialises initialize: a thread runs the       *)
(* statements of InitializeStep one at a time, and between two of them     *)
(* another thread, on another RAGEngine object with the same persist       *)
(* directory and collection name, runs its own.  threads[e] is the         *)
(* position of the thread inside engines[e].initialize; the engine fields  *)
(* and the collection are read from and written to the shared state at     *)
(* every step.                                                             *)
(***************************************************************************)
\* what the document root holds while the threads run
ThreadCorpora == {<<ChunkVacation>>}

InitThreads ==
    /\ directory = NoDirectory
    /\ results = <<>>
    /\ max_context_length = 0
    /\ question = <<>>
    /\ ret = NoCall
    /\ chromadb = TRUE
    /\ SentenceTransformer = TRUE
    /\ engines = [e \in EngineIds |-> FreshEngine]
    /\ rag_engine_global = 0
    /\ server_rag_engine = 0
    /\ hr_module = FALSE
    /\ store \in PersistedStores
    /\ uid_counter = store.uid
    /\ last_init = [e \in EngineIds |-> "never"]
    /\ threads = [e \in EngineIds |-> Idle]

threadFrame == <<chromadb, SentenceTransformer, rag_engine_global,
                 server_rag_engine, hr_module, ret, argumentVars>>

\* the thread's position, without the copies of the shared state and without
\* the record of the collection found at entry and of the calls that raised
Position(c) ==
    [c EXCEPT !.eng = NoEngine, !.st = NoStore, !.uid = 0, !.pre = NoStore,
              !.failed = {}]

\* the thread's position together with the shared state as it is now
Configuration(e) ==
    [threads[e] EXCEPT !.eng = engines[e], !.st = store, !.uid = uid_counter]

Running(e) == threads[e].pc \notin {"idle", "ret_true", "ret_false", "returned"}

\* a thread enters engines[e].initialize(force_rebuild)
EnterInitialize(e) ==
    /\ threads[e] = Idle
    /\ \E force \in BOOLEAN :
        threads' = [threads EXCEPT ![e] =
                        Position(StartInitialize(engines[e], store, uid_counter, force))]
    /\ UNCHANGED <<engines, store, uid_counter, last_init, threadFrame>>

\* the thread executes its next statement
StepInitialize(e) ==
    /\ Running(e)
    /\ \E d \in InitializeStep(Configuration(e), chromadb /\ SentenceTransformer,
                               ThreadCorpora) :
        /\ engines' = [engines EXCEPT ![e] = d.eng]
        /\ store' = d.st
        /\ uid_counter' = d.uid
        /\ threads' = [threads EXCEPT ![e] = Position(d)]
    /\ UNCHANGED <<last_init, threadFrame>>

\* the thread reaches return True (after self.is_initialized = True) or
\* return False
LeaveInitialize(e) ==
    /\ threads[e].pc \in {"ret_true", "ret_false"}
    /\ LET value == threads[e].pc = "ret_true"
       IN  /\ engines' = [engines EXCEPT
                            ![e].is_initialized = ReadyAfter(@, value)]
           /\ last_init' = [last_init EXCEPT ![e] = IF value THEN "true" ELSE "false"]
           /\ threads' = [threads EXCEPT ![e] =
                            [pc |-> "returned", value |-> value,
                             ops |-> threads[e].ops, force |-> threads[e].force]]
    /\ UNCHANGED <<store, uid_counter, threadFrame>>

NextThreads ==
    \E e \in EngineIds :
        \/ EnterInitialize(e)
        \/ StepInitialize(e)
        \/ LeaveInitialize(e)

SpecThreads == InitThreads /\ [][NextThreads]_vars

(***************************************************************************)
(* Properties of the context assembler (SpecCtx)                           *)
(***************************************************************************)
RECURSIVE CumLen(_)
\* total content length of the first k search results
CumLen(k) == IF k = 0 THEN 0 ELSE CumLen(k - 1) + Len(results[k].content)

Assembled == ret.op = "assemble"

\* C1: the context string returned by get_context_for_question, labels and
\* separators included, is never longer than max_context_length plus the
\* three characters of one ellipsis.
C1_ContextBudget ==
    Assembled => Len(ret.context) <= max_context_length + Len(Ellipsis)

C2_Scenario ==
    /\ max_context_length = 100
    /\ Len(results) >= 1
    /\ Len(results[1].content) = 500

\* C2 as stated: with a budget of 100 and a first result of 500 characters the
\* context is the first result cut to 100 characters plus the ellipsis, with
\* one source, and the second result does not appear.
C2_TruncatedFirstCandidate ==
    (Assembled /\ C2_Scenario) =>
        /\ ret.context = FormatPart(results[1].section,
                                    Take(results[1].content, 100) \o Ellipsis)
        /\ Len(ret.sources) = 1

\* C2 amended: with a budget of 100 and a first result of 500 characters the
\* remaining allowance (100) is not above 200, so the first result is dropped,
\* assembly stops, and the call returns the empty context with no sources;
\* neither candidate appears.
C2_FirstCandidateDropped ==
    (Assembled /\ C2_Scenario) => (ret.context = <<>> /\ ret.sources = <<>>)

C2_Witness == Assembled /\ C2_Scenario /\ Len(results) = 2 /\ ret.sources = <<>>

\* C3: the included passages are the first n ranked results in order; all but
\* possibly the last are whole and fit the budget; the last is cut to the
\* remaining allowance plus "..." exactly when it overflows and the allowance
\* is above 200; an overflowing result with allowance of 200 or less is
\* dropped and ends the accumulation; nothing follows a truncated result.
C3_TruncationPolicy ==
    Assembled =>
        \E n \in 0..Len(results) :
            LET truncLast == n >= 1 /\ CumLen(n) > max_context_length
                rem == max_context_length - CumLen(n - 1)
                part(k) == IF k = n /\ truncLast
                           THEN Take(results[k].content, rem) \o Ellipsis
                           ELSE results[k].content
            IN  /\ \A k \in 1..(n - 1) : CumLen(k) <= max_context_length
                /\ truncLast => rem > 200
                /\ (n < Len(results) /\ ~truncLast) =>
                       /\ CumLen(n + 1) > max_context_length
                       /\ max_context_length - CumLen(n) <= 200
                /\ ret.context =
                       Join([k \in 1..n |-> FormatPart(results[k].section, part(k))],
                            Separator)
                /\ Len(ret.sources) = n
                /\ \A k \in 1..n : ret.sources[k].title = results[k].section

\* a second result that overflows with more than 200 characters left is cut
C3_Witness ==
    /\ Assembled
    /\ Len(results) = 2
    /\ Len(ret.sources) = 2
    /\ CumLen(1) <= max_context_length
    /\ CumLen(2) > max_context_length

(***************************************************************************)
(* Properties of the domain gate (SpecGate)                                *)
(***************************************************************************)
Classified == ret.op = "is_hr_related"

\* the lower-cased question contains a keyword of the list
HasKeyword(q, list) == \E k \in DOMAIN list : Contains(LowerStr(q), list[k])

\* C4: a question that contains an in-domain keyword is admitted, whatever
\* off-domain keywords it also contains and whatever its length.
C4_InDomainWins ==
    (Classified /\ HasKeyword(question, hr_keywords)) => ret.value = TRUE

C4_Witness ==
    /\ Classified
    /\ HasKeyword(question, hr_keywords)
    /\ HasKeyword(question, non_hr_keywords)
    /\ ret.value = TRUE

\* C5: a question without an in-domain keyword is rejected, so the gate admits
\* a question if and only if it contains an in-domain keyword.
C5_RejectByDefault ==
    Classified => (ret.value = TRUE <=> HasKeyword(question, hr_keywords))

\* three tokens, no keyword of either list: rejected by the final default
C5_Witness ==
    /\ Classified
    /\ ~HasKeyword(question, hr_keywords)
    /\ ~HasKeyword(question, non_hr_keywords)
    /\ TokenCount(question) >= 3
    /\ ret.value = FALSE

(***************************************************************************)
(* Properties of the index lifecycle and of the reads (Spec)               *)
(***************************************************************************)
\* ret is the return record of an initialize call
Initialized == ret.op = "initialize"

\* C6: whenever the latest initialize call on an engine returned false, the
\* engine is not Ready (is_initialized is false) and a search on it returns
\* the empty list, whatever calls were made on the engine before.
C6_FailedInitializeNotReady ==
    /\ \A e \in EngineIds :
        last_init[e] = "false" => ~engines[e].is_initialized
    /\ (ret.op = "search" /\ last_init[ret.eid] = "false") => ret.value = <<>>

\* the collection existed, was non-empty and force_rebuild was false
C7_ReuseCase ==
    /\ Initialized
    /\ ret.pre.exists
    /\ ret.pre.docs # <<>>
    /\ ~ret.force

C8_RebuildCase ==
    /\ Initialized
    /\ (~ret.pre.exists \/ ret.pre.docs = <<>> \/ ret.force)

\* C8: in the rebuild case, when initialize returns true, an old collection
\* of the name was dropped and the new collection holds one entry per chunk
\* of the document root, in order, with id = chunk_id and ids pairwise
\* distinct; when there are no chunks the collection exists with zero
\* entries and initialize returns true.
C8_RebuildOnInitialize ==
    C8_RebuildCase =>
        /\ ret.value =>
            /\ ret.parsed
            /\ store.exists
            /\ ret.pre.exists => ("delete" \in ret.ops /\ store.uid # ret.pre.uid)
            /\ Len(store.docs) = Len(ret.chunks)
            /\ \A i \in DOMAIN ret.chunks :
                /\ store.docs[i].id = ret.chunks[i].chunk_id
                /\ store.docs[i].document = ret.chunks[i].content
            /\ \A i, j \in DOMAIN store.docs :
                store.docs[i].id = store.docs[j].id => i = j
        /\ (ret.parsed /\ ret.chunks = <<>>) =>
            /\ ret.value
            /\ store.exists
            /\ store.docs = <<>>

C8_Witness ==
    /\ C8_RebuildCase
    /\ ret.force
    /\ ret.pre.docs # <<>>
    /\ ret.value
    /\ "delete" \in ret.ops
    /\ Len(ret.chunks) = 2
    /\ Len(store.docs) = 2

\* C9: no exception escapes search or get_context_for_question; when the
\* query embedding or the index query fails, search returns the empty list,
\* and get_context_for_question returns ("", []) whenever its search found
\* nothing.
C9_FailSoftReads ==
    /\ ret.op \in {"search", "get_context_for_question"} => ~ret.escaped
    /\ (ret.op = "search" /\ ret.failure # "none") => ret.value = <<>>
    /\ (ret.op = "get_context_for_question"
            /\ (ret.failure # "none" \/ ret.found = <<>>)) =>
        (ret.context = <<>> /\ ret.sources = <<>>)

\* a Ready engine whose collection was dropped, or dropped and recreated by
\* another engine, is asked for context and the index query fails
C9_Witness ==
    /\ ret.op = "get_context_for_question"
    /\ engines[ret.eid].is_initialized
    /\ (~store.exists \/ engines[ret.eid].collection # store.uid)
    /\ ret.failure = "query"
    /\ ~ret.escaped
    /\ ret.context = <<>>
    /\ ret.sources = <<>>

(***************************************************************************)
(* Properties of the serving paths (SpecServer)                            *)
(***************************************************************************)
\* C10: a question the domain gate rejects is answered by /ask and by
\* /ask/stream without a call of get_context_for_question or search, so
\* without a query embedding and without an index query.
C10_OffDomainShortCircuit ==
    (ret.op \in {"/ask", "/ask/stream"} /\ ret.status = 200
        /\ ~is_hr_related(ret.question)) =>
        /\ ret.search_calls = 0
        /\ ret.embed_calls = 0
        /\ ret.query_calls = 0

\* C11: POST /ask answers every non-empty question that is_hr_related
\* rejects with status 200, ood_reject = true and an answer, whether or not
\* the retrieval engine is initialized and the language model is loaded.
C11_AskRejectsOffDomain ==
    (ret.op = "/ask" /\ ret.question # <<>> /\ ~is_hr_related(ret.question)) =>
        /\ ret.status = 200
        /\ ret.ood_reject
        /\ ret.answer # "none"

(***************************************************************************)
(* Properties of the chunker (SpecChunk)                                   *)
(***************************************************************************)
\* ret is the value parse_file returned for a readable file
Chunked == ret.op = "parse_file" /\ ~ret.escaped

\* some line of the content starts with "## "
HasSecondLevelHeading(content) ==
    \E p \in 1..(Len(content) - 2) :
        /\ (p = 1 \/ content[p - 1] = "\n")
        /\ SubSeq(content, p, p + 2) = <<"#", "#", " ">>

\* C12: a document without a second-level ("## ") heading yields no chunks,
\* and the text before the first second-level heading is never a chunk:
\* every chunk starts with a second-level heading.
C12_NoChunkWithoutHeading ==
    Chunked =>
        /\ ~HasSecondLevelHeading(ret.content) => ret.chunks = <<>>
        /\ \A i \in DOMAIN ret.chunks :
            Take(ret.chunks[i].content, 3) = <<"#", "#", " ">>

\* the ordered keyword list of the category rule, each keyword with the
\* category it stands for
CategoryKeywords ==
    << [keyword |-> <<"p", "o", "l", "i", "c", "y">>, category |-> "policy"],
       [keyword |-> kw_benefits, category |-> "benefits"],
       [keyword |-> kw_payroll, category |-> "payroll"],
       [keyword |-> kw_onboarding, category |-> "onboarding"] >>

\* the category of the first listed keyword that occurs in the lowercased
\* path, "general" when none occurs
FirstKeywordCategory(file_path) ==
    LET hits == {k \in DOMAIN CategoryKeywords :
                    Contains(LowerStr(file_path), CategoryKeywords[k].keyword)}
    IN  IF hits = {} THEN "general" ELSE CategoryKeywords[Least(hits)].category

\* C13: the category of every chunk is that of the first keyword of
\* (policy, benefits, payroll, onboarding) occurring, case-insensitively, in
\* the source path, and "general" when none occurs.
C13_CategoryByFirstKeyword ==
    Chunked =>
        \A i \in DOMAIN ret.chunks :
            ret.chunks[i].category = FirstKeywordCategory(ret.path)

C15_MinimumLength ==
    /\ ret.op \in {"parse_file", "parse_directory"} =>
        \A i \in DOMAIN ret.chunks : Len(Strip(ret.chunks[i].content)) >= 50
    /\ Chunked =>
        \A k \in DOMAIN Sections(ret.content) :
            Len(Strip(Sections(ret.content)[k])) < 50 =>
                \A i \in DOMAIN ret.chunks :
                    /\ ret.chunks[i].index # k - 1
                    /\ ret.chunks[i].content # Strip(Sections(ret.content)[k])

\* a heading section of exactly 50 characters is emitted while the
\* document's title line, a section of 15 characters, is not
C15_Witness ==
    /\ Chunked
    /\ Len(Sections(ret.content)) = 2
    /\ Len(Strip(Sections(ret.content)[1])) = 15
    /\ Len(ret.chunks) = 1
    /\ Len(ret.chunks[1].content) = 50

\* the first line of a text
FirstLine(s) == SubSeq(s, 1, LineEnd(s, 1))

\* the text of the first line of the form "# text", else the filename stem
FirstTopLevelHeading(file_path, content) ==
    LET at == {p \in 1..(Len(content) - 2) :
                  /\ (p = 1 \/ content[p - 1] = "\n")
                  /\ content[p] = "#"
                  /\ content[p + 1] = " "
                  /\ content[p + 2] \notin Whitespace}
    IN  IF at = {} THEN Stem(file_path)
        ELSE SubSeq(content, Least(at) + 2, LineEnd(content, Least(at)))

\* the text after the "##" that opens the section, else "Section i"
HeadingText(section, i) ==
    IF Take(section, 2) = <<"#", "#">>
    THEN Strip(SubSeq(FirstLine(section), 3, Len(FirstLine(section))))
    ELSE <<"S", "e", "c", "t", "i", "o", "n", " ">> \o Str(i)

C16_Scenario ==
    /\ Chunked
    /\ ret.content = Document(<<LineTitle, LineVacation, Content(0, 80)>>)

RECURSIVE ChunksOfReadable(_)
\* the chunks of the readable files of a list, file after file
ChunksOfReadable(files) ==
    IF files = <<>> THEN <<>>
    ELSE (IF Head(files).readable
          THEN parse_file(Head(files).path, Head(files).content)
          ELSE <<>>)
         \o ChunksOfReadable(Tail(files))

\* C17: parse_directory never raises; it returns the chunks of the files
\* that parse, in order, files that fail contributing nothing, and the
\* empty list for a missing or empty directory.
C17_DirectoryTolerance ==
    ret.op = "parse_directory" =>
        /\ ~ret.escaped
        /\ ret.chunks = ChunksOfReadable(directory.files)
        /\ (~directory.exists \/ directory.files = <<>>) => ret.chunks = <<>>

\* a file that fails comes before a file that yields a chunk
C17_Witness ==
    /\ ret.op = "parse_directory"
    /\ Len(directory.files) = 2
    /\ ~directory.files[1].readable
    /\ directory.files[2].readable
    /\ ~ret.escaped
    /\ Len(ret.chunks) = 1

(***************************************************************************)
(* Further properties of the reads (Spec)                                  *)
(***************************************************************************)
\* ret is the value get_context_for_question returned
ContextReturned == ret.op = "get_context_for_question"

\* C18: whenever the search inside get_context_for_question returns no
\* results - the engine is not Ready, no entry of the index passes the
\* category filter, or the embedding or the query raised - the call returns
\* exactly ("", []).
C18_EmptyResultShortCircuit ==
    (/\ ContextReturned
     /\ \/ ret.found = <<>>
        \/ ~engines[ret.eid].is_initialized
        \/ Matching(store.docs, ret.category_filter) = <<>>
        \/ ret.failure # "none") =>
        /\ ret.found = <<>>
        /\ ret.context = <<>>
        /\ ret.sources = <<>>

\* a Ready engine over a non-empty index whose entries all fail the filter
C18_Witness ==
    /\ ContextReturned
    /\ engines[ret.eid].is_initialized
    /\ store.exists
    /\ engines[ret.eid].collection = store.uid
    /\ store.docs # <<>>
    /\ ret.category_filter # NoFilter
    /\ ret.failure = "none"
    /\ ret.found = <<>>
    /\ ret.context = <<>>
    /\ ret.sources = <<>>

C20_EmbeddingConsistency ==
    \A e \in EngineIds :
        (/\ engines[e].is_initialized
         /\ store.exists
         /\ engines[e].collection = store.uid
         /\ store.docs # <<>>) =>
            store.embedded_by = engines[e].embedding_model_name

(***************************************************************************)
(* Properties of search results and of the assembled context (Spec)        *)
(***************************************************************************)
Abs(x) == IF x < 0 THEN -x ELSE x

\* C21: search returns one result per hit the index returned, in the order
\* the index returned them (ascending distance, so descending similarity),
\* each with the hit's text and metadata and with the multiple of 0.001
\* nearest to 1 - distance as its similarity.
C21_SearchOrderAndSimilarity ==
    (ret.op = "search" /\ ret.failure = "none") =>
        /\ Len(ret.value) = Len(ret.hits)
        /\ \A i \in DOMAIN ret.hits :
            /\ ret.value[i].content = ret.hits[i].doc.document
            /\ ret.value[i].section = ret.hits[i].doc.section
            /\ ret.value[i].category = ret.hits[i].doc.category
            /\ Abs(10 * ret.value[i].similarity - (10000 - ret.hits[i].distance)) <= 5
        /\ \A i, j \in DOMAIN ret.hits :
            i < j => /\ ret.hits[i].distance <= ret.hits[j].distance
                     /\ ret.value[i].similarity >= ret.value[j].similarity

\* an unfiltered search(top_k=5) for which the index returned the vacation
\* chunk first at distance 0.1804 and another chunk after it: the vacation
\* chunk is the first result, with similarity 0.82
C21_Witness ==
    /\ ret.op = "search"
    /\ ret.top_k = TopK
    /\ ret.category_filter = NoFilter
    /\ Len(ret.hits) = 2
    /\ ret.hits[1].doc.document = ChunkVacation.content
    /\ ret.hits[1].distance = 1804
    /\ ret.hits[2].distance > 1804
    /\ ret.value[1].content = ChunkVacation.content
    /\ ret.value[1].similarity = 820

\* C22: every similarity in a search result, and in a source record derived
\* from it, lies in [0, 1] (0..1000 in units of 0.001).
C22_SimilarityInUnitInterval ==
    /\ ret.op = "search" =>
        \A i \in DOMAIN ret.value :
            ret.value[i].similarity >= 0 /\ ret.value[i].similarity <= 1000
    /\ ret.op = "get_context_for_question" =>
        \A i \in DOMAIN ret.sources :
            ret.sources[i].similarity >= 0 /\ ret.sources[i].similarity <= 1000

\* C23: every source record has a snippet of at most 200 characters, and the
\* source records are the titles, categories and similarities of the first
\* results, one per included passage and in the same order.
C23_SnippetWithinLimit ==
    Assembled =>
        /\ Len(ret.sources) <= Len(results)
        /\ \A k \in DOMAIN ret.sources :
            /\ Len(ret.sources[k].snippet) <= SnippetLength
            /\ ret.sources[k].title = results[k].section
            /\ ret.sources[k].category = results[k].category
            /\ ret.sources[k].similarity = results[k].similarity

\* C24: get_context_for_question calls search exactly once, with top_k = 5
\* and with no category filter for mode "policy", the filter "benefits" for
\* mode "benefits", "payroll" for mode "payroll", and no filter for every
\* other mode string.
C24_ModeMapping ==
    ret.op = "get_context_for_question" =>
        /\ ret.search_calls = 1
        /\ ret.top_k = 5
        /\ ret.mode = "benefits" => ret.category_filter = "benefits"
        /\ ret.mode = "payroll" => ret.category_filter = "payroll"
        /\ ret.mode \notin {"benefits", "payroll"} => ret.category_filter = NoFilter
        /\ \A i \in DOMAIN ret.found :
            ret.mode \in {"benefits", "payroll"} => ret.found[i].category = ret.mode

\* an unrecognized mode searched unfiltered: results of two categories found
C24_Witness ==
    /\ ret.op = "get_context_for_question"
    /\ ret.mode \notin {"policy", "benefits", "payroll"}
    /\ ret.category_filter = NoFilter
    /\ ret.search_calls = 1
    /\ Len(ret.found) = 2
    /\ ret.found[1].category # ret.found[2].category

(***************************************************************************)
(* Properties of the rebuild endpoint and of the singleton (SpecServer)    *)
(***************************************************************************)
RebuildAnswered ==
    \/ ret.op = "rebuild_index"
    \/ ret.op = "initialize" /\ ret.caller = "rebuild_index"

\* C25: whenever POST /rebuild-index answers "success", the request dropped
\* the collection that existed, created a new one, and chunked, embedded and
\* inserted the current documents, also when a non-empty collection existed.
C25_RebuildIndexRebuilds ==
    (RebuildAnswered /\ RebuildIndexStatus(ret, engines) = "success") =>
        /\ ret.pre.exists => "delete" \in ret.ops
        /\ "create" \in ret.ops
        /\ ret.parsed
        /\ ret.chunks # <<>> => {"embed", "insert"} \subseteq ret.ops

(***************************************************************************)
(* Properties of concurrent initialize calls (SpecThreads)                 *)
(***************************************************************************)
\* the thread has dropped or created the collection and has not yet left
\* _create_and_populate_collection
Rebuilding(e) ==
    /\ Running(e)
    /\ threads[e].ops \cap {"delete", "create"} # {}

\* C26: at most one rebuild of the collection is in progress at any time:
\* no two threads are both between their first drop or create step and the
\* end of their populate step.
C26_ExclusiveRebuild ==
    \A e, f \in EngineIds : (Rebuilding(e) /\ Rebuilding(f)) => e = f

(***************************************************************************)
(* Properties of the engine's lifecycle (Spec)                             *)
(***************************************************************************)
\* the latest initialize call on the engine got past the dependency test,
\* constructed the embedding model, and returned false with the engine not
\* Ready: the index backend could not be constructed or populated
FailedEngine(e) ==
    /\ last_init[e] = "false"
    /\ engines[e].embedder
    /\ ~engines[e].is_initialized

\* C27: a Ready engine stays Ready, and Failed is terminal: no step makes
\* Ready an engine whose initialize has failed on the embedding or index
\* backend.
C27_FailedIsTerminal ==
    [][\A e \in EngineIds :
        /\ engines[e].is_initialized => engines'[e].is_initialized
        /\ FailedEngine(e) => ~engines'[e].is_initialized]_vars

(***************************************************************************)
(* Properties of the returned pair (SpecCtx)                               *)
(***************************************************************************)
\* the passages joined into a context string: one more than the separators
\* in it (no passage of the model contains the separator)
PassagesIn(context) ==
    IF context = <<>> THEN 0
    ELSE 1 + Cardinality({i \in 1..(Len(context) - Len(Separator) + 1) :
                            SubSeq(context, i, i + Len(Separator) - 1) = Separator})

\* C28: the returned context is empty if and only if the returned sources
\* list is empty, and there are as many source records as passages joined
\* into the context.
C28_ContextAndSourcesAgree ==
    Assembled =>
        /\ (ret.context = <<>>) <=> (ret.sources = <<>>)
        /\ Len(ret.sources) = PassagesIn(ret.context)

\* a non-empty search result whose first element does not fit: ("", [])
C28_Witness ==
    /\ Assembled
    /\ Len(results) >= 1
    /\ Len(results[1].content) > max_context_length
    /\ ret.context = <<>>
    /\ ret.sources = <<>>

RECURSIVE LabelsLen(_)
\* the characters of the first n labels "[section]\n" of the context
LabelsLen(n) ==
    IF n = 0 THEN 0
    ELSE LabelsLen(n - 1) + Len(FormatPart(ret.sources[n].title, <<>>))

\* the characters of the included passage contents: the context without
\* its labels and separators
IncludedContentLen ==
    LET n == Len(ret.sources)
    IN  IF n = 0 THEN 0
        ELSE Len(ret.context) - LabelsLen(n) - (n - 1) * Len(Separator)

\* every included passage is the whole content of its search result
NoneTruncated ==
    ret.context =
        Join([k \in 1..Len(ret.sources) |->
                FormatPart(results[k].section, results[k].content)], Separator)

\* C29: the contents of the included passages, a truncated one counted with
\* its "...", are together at most max_context_length + 3 characters long,
\* and at most max_context_length when none was truncated.
C29_IncludedContentBudget ==
    (Assembled /\ max_context_length >= 0) =>
        /\ IncludedContentLen <= max_context_length + Len(Ellipsis)
        /\ NoneTruncated => IncludedContentLen <= max_context_length

\* a whole passage followed by a truncated one fills the budget and the
\* three characters of the ellipsis
C29_Witness ==
    /\ Assembled
    /\ Len(ret.sources) = 2
    /\ ~NoneTruncated
    /\ IncludedContentLen = max_context_length + Len(Ellipsis)

(***************************************************************************)
(* Properties of the singleton (SpecServer)                                *)
(***************************************************************************)
Callers == {"get_rag_engine", "load_rag_engine", "rebuild_index"}

\* r is what a get_rag_engine call left in ret
GetRagEngineCall(r) ==
    \/ r.op \in Callers
    \/ r.op = "initialize" /\ r.caller \in Callers

\* C30: once the singleton is set, a get_rag_engine call with force_init
\* false returns that object, whatever company_data_path it is given and
\* whether or not the object is Ready, and constructs and initializes
\* nothing; the singleton changes only in a call that constructs a new
\* object (force_init true, or no singleton yet), and is then the new object
\* whatever its initialize returned.
C30_SingletonEngine ==
    [][/\ (Returned /\ GetRagEngineCall(ret') /\ rag_engine_global # 0
                /\ ~ret'.force_init) =>
            /\ ret'.op # "initialize"
            /\ ~ret'.escaped
            /\ ret'.eid = rag_engine_global
            /\ UNCHANGED <<rag_engine_global, engines, store, uid_counter,
                           chromadb, SentenceTransformer, last_init>>
       /\ rag_engine_global' # rag_engine_global =>
            /\ Returned /\ GetRagEngineCall(ret')
            /\ ret'.force_init \/ rag_engine_global = 0
            /\ ret'.op = "initialize"
            /\ ~engines[ret'.eid].constructed
            /\ rag_engine_global' = ret'.eid
       /\ (Returned /\ GetRagEngineCall(ret') /\ ret'.op = "initialize") =>
            rag_engine_global' = ret'.eid]_vars

\* a call with force_init false and with another company_data_path than the
\* singleton's has returned the singleton, whose initialize had failed
C30_Witness ==
    /\ ret.op = "get_rag_engine"
    /\ ~ret.force_init
    /\ ~ret.escaped
    /\ ret.eid = rag_engine_global
    /\ ret.company_data_path # engines[ret.eid].company_data_path
    /\ last_init[ret.eid] = "false"
    /\ ~engines[ret.eid].is_initialized

====
